---- MODULE Spec2Model ----
(***************************************************************************)
(* Model of the chat agent of the Revit chat assistant server              *)
(* (server/src/agent/langchat_agent.py): one LangChatAgent object, its     *)
(* per-session histories and its cached pipeline, and the chat calls made  *)
(* on it.  A chat call is cut into steps at the places where it reads or   *)
(* writes the state the agent shares between calls, so that calls made     *)
(* from several threads interleave as CPython lets them.                   *)
(***************************************************************************)
EXTENDS Integers, Sequences, FiniteSets, TLC

\* Bound of the model: the number of chat calls made on the agent.
MaxCalls == 2

Calls == 1..MaxCalls

\* The threads that call chat on the agent; two are what the interleavings of
\* one call with another need.
Workers == {"worker-1", "worker-2"}

(***************************************************************************)
(* Python values.  Text is a sequence of tokens; every value has the same  *)
(* shape so that values of different Python types can be compared.         *)
(***************************************************************************)
Str(t) == [type |-> "str", val |-> t]
None == [type |-> "NoneType", val |-> <<>>]
PyInt(t) == [type |-> "int", val |-> t]
Unset == [type |-> "unset", val |-> <<>>]

\* isinstance(v, str)
IsStr(v) == v.type = "str"

\* bool(v): the truth value Python gives v in `not v`
Truthy(v) ==
    CASE v.type = "str" -> Len(v.val) > 0
      [] v.type = "int" -> v.val # <<"0">>
      [] OTHER -> FALSE

\* The arguments a caller may pass to chat.
Messages == {Str(<<"a">>), Str(<<>>), PyInt(<<"7">>)}
\* A wider choice of messages, for the calls of EchoSpec: the message of the
\* agent's test, one of several words and a blank one.
EchoMessages ==
    Messages \cup {Str(<<"Ping">>), Str(<<"a", " ", "b">>), Str(<<" ">>)}
SessionIds == {Str(<<"s1">>), Str(<<"s2">>), Str(<<>>), PyInt(<<"7">>)}

\* The providers an agent is constructed with.  chat tells the fake provider
\* from the network-backed ones and nothing more, so one of these stands for
\* the three.
Providers == {"openai", "fake"}

\* What chain.invoke may hand back for a network-backed provider.
BackendResults == {None, Str(<<>>), Str(<<" ">>), Str(<<"r">>)}
\* What chain.invoke may raise.
InvokeErrors == {"KeyError", "TypeError", "ImportError", "RuntimeError"}
\* What making a history object may raise: nothing where memory is never
\* short, MemoryError where it may be.
HistoryErrors == {"none", "MemoryError"}
\* What building the pipeline may raise.
BuildErrors == {"ImportError", "KeyError", "ValueError"}

\* f"[provider=fake][echo] {message}", the part before the message.
FakePrefix == <<"[", "provider=fake", "]", "[echo]", " ">>

\* A turn of a history: HumanMessage / AIMessage.  `call` names the chat call
\* whose statement created the message object.
Turn(r, text, c) == [role |-> r, content |-> text, call |-> c]

\* How a call ended.
Running == [kind |-> "running", exc |-> "", detail |-> <<>>, value |-> <<>>]
Return(text) == [kind |-> "return", exc |-> "", detail |-> <<>>, value |-> text]
\* An exception of class e whose message is the parts of d put together.
Raise(e, d) == [kind |-> "raise", exc |-> e, detail |-> d, value |-> <<>>]

(***************************************************************************)
(* Construction of the agent: LangChatAgent.__init__.  The provider string *)
(* is modelled character by character, since the constructor folds its     *)
(* case and trims it before looking it up.                                 *)
(***************************************************************************)
LowerAlpha == <<"a", "b", "c", "d", "e", "f", "g", "h", "i", "j", "k", "l", "m",
                "n", "o", "p", "q", "r", "s", "t", "u", "v", "w", "x", "y", "z">>
UpperAlpha == <<"A", "B", "C", "D", "E", "F", "G", "H", "I", "J", "K", "L", "M",
                "N", "O", "P", "Q", "R", "S", "T", "U", "V", "W", "X", "Y", "Z">>

\* The characters str.strip() removes.
Whitespace == {" ", "\t", "\n"}

\* str.lower()
Lower(t) ==
    [i \in DOMAIN t |->
        IF \E k \in DOMAIN UpperAlpha : UpperAlpha[k] = t[i]
        THEN LowerAlpha[CHOOSE k \in DOMAIN UpperAlpha : UpperAlpha[k] = t[i]]
        ELSE t[i]]

\* str.upper(), used to write the arguments callers pass
Upper(t) ==
    [i \in DOMAIN t |->
        IF \E k \in DOMAIN LowerAlpha : LowerAlpha[k] = t[i]
        THEN UpperAlpha[CHOOSE k \in DOMAIN LowerAlpha : LowerAlpha[k] = t[i]]
        ELSE t[i]]

\* str.capitalize()
Capitalize(t) ==
    IF Len(t) = 0 THEN t ELSE Upper(SubSeq(t, 1, 1)) \o SubSeq(t, 2, Len(t))

\* str.strip(): the text from its first to its last non-whitespace element.
Strip(t) ==
    LET keep == {i \in DOMAIN t : t[i] \notin Whitespace} IN
    IF keep = {} THEN <<>>
    ELSE SubSeq(t, CHOOSE i \in keep : \A j \in keep : i <= j,
                   CHOOSE i \in keep : \A j \in keep : j <= i)

\* class ProviderEnum(str, Enum), in definition order.
ProviderEnum ==
    << [name |-> "OPENAI", value |-> <<"o", "p", "e", "n", "a", "i">>],
       [name |-> "ANTHROPIC", value |-> <<"a", "n", "t", "h", "r", "o", "p", "i", "c">>],
       [name |-> "CLAUDE", value |-> <<"c", "l", "a", "u", "d", "e">>],
       [name |-> "OLLAMA", value |-> <<"o", "l", "l", "a", "m", "a">>],
       [name |-> "FAKE", value |-> <<"f", "a", "k", "e">>] >>

\* [p.value for p in ProviderEnum]
valid_providers == [i \in DOMAIN ProviderEnum |-> ProviderEnum[i].value]

\* ', '.join(q)
RECURSIVE Join(_)
Join(q) ==
    IF Len(q) = 0 THEN <<>>
    ELSE IF Len(q) = 1 THEN q[1]
         ELSE q[1] \o <<",", " ">> \o Join(Tail(q))

\* The words callers write as a provider: the enum's values and words that
\* are none of them.
ProviderWords ==
    {valid_providers[i] : i \in DOMAIN valid_providers}
    \cup { <<>>, <<"g", "p", "t">>, <<"f", "a", "k", "e", "s">>,
           <<"o", "p", "e", "n", " ", "a", "i">> }

\* The whitespace callers leave around the word: <<before, after>>.
Paddings == { <<<<>>, <<>>>>, <<<<" ">>, <<>>>>, <<<<>>, <<"\n">>>>,
              <<<<"\t", " ">>, <<" ">>>> }

\* The arguments a caller may pass as provider: each word as written, in
\* capitals and capitalised, with each padding; and None.
ProviderArgs ==
    {None} \cup
    { Str(pad[1] \o w \o pad[2]) :
        w \in UNION {{x, Upper(x), Capitalize(x)} : x \in ProviderWords},
        pad \in Paddings }

\* f"Invalid provider '{provider}'. Valid options: {', '.join(valid_providers)}"
InvalidProviderMessage(p) ==
    <<"Invalid provider '">> \o p.val \o <<"'. Valid options: ">>
    \o Join(valid_providers)


(***************************************************************************)
(* The script runner: run_script of server/src/executor/runner.py.  A      *)
(* script is what the interpreter does with it: whether its text can be    *)
(* encoded into the temporary file, how long the child runs, its exit      *)
(* status and what it writes.  Output text is a sequence of tokens, the    *)
(* whitespace ones being those of Whitespace.                              *)
(***************************************************************************)

\* Bound of the model: the number of run_script calls.
MaxRuns == 2

Runs == 1..MaxRuns

Script(enc, d, rc, out, err) ==
    [encodable |-> enc, duration |-> d, returncode |-> rc,
     stdout |-> out, stderr |-> err]

\* The scripts callers pass: those that end at once, with either exit status
\* and every shape of output (none, whitespace only, text); the one of the
\* tests that sleeps two seconds; and one whose text has a character the
\* file's encoding rejects, so that tmp.write raises.
Scripts ==
    { Script(TRUE, 0, rc, out, err) :
        rc \in {0, 1},
        out \in { <<>>, <<" ", "\n">>, <<"ok", "\n">> },
        err \in { <<>>, <<" ">>, <<"boom", "\n">> } }
    \cup { Script(TRUE, 2, 0, <<"ok", "\n">>, <<"boom", "\n">>),
           Script(FALSE, 0, 0, <<>>, <<>>) }

\* The calls made, <<script, timeout>> with the timeout in seconds: every
\* script with a timeout of one second, and with the timeout of zero of the
\* tests the script that sleeps, one that prints and ends at once, and the
\* one that cannot be written.
Invocations ==
    { <<s, 1>> : s \in Scripts }
    \cup { <<s, 0>> : s \in { Script(TRUE, 2, 0, <<"ok", "\n">>, <<"boom", "\n">>),
                             Script(TRUE, 0, 0, <<"ok", "\n">>, <<>>),
                             Script(FALSE, 0, 0, <<>>, <<>>) } }

\* "[timeout] Script execution exceeded the configured timeout."
TimeoutSentinel ==
    <<"[", "timeout", "]", " ", "Script execution exceeded the configured ",
      "timeout", ".">>

\* format_output as it would be if stderr were labelled in every case.
format_output_always_labelled(returncode, out, err) ==
    IF Len(Strip(err)) > 0
    THEN Strip(out) \o <<"\n", "[stderr]", "\n">> \o Strip(err)
    ELSE Strip(out)

\* format_output as it would be if stderr were never reported.
format_output_stdout_only(returncode, out, err) == Strip(out)

\* format_output as it would be if a failed child's stderr replaced its
\* stdout in every case.
format_output_stderr_on_failure(returncode, out, err) ==
    IF returncode # 0
    THEN Strip(err)
    ELSE LET output == Strip(out) IN
         IF Len(Strip(err)) > 0
         THEN IF Len(output) > 0
              THEN output \o <<"\n", "[stderr]", "\n">> \o Strip(err)
              ELSE Strip(err)
         ELSE output

\* run_script, from `stdout = proc.stdout or ""` to `return output`: the text
\* returned for a child that exited.
format_output(returncode, out, err) ==
    IF returncode # 0 /\ Len(out) = 0
    THEN Strip(err)
    ELSE LET output == Strip(out) IN
         IF Len(Strip(err)) > 0
         THEN IF Len(output) > 0
              THEN output \o <<"\n", "[stderr]", "\n">> \o Strip(err)
              ELSE Strip(err)
         ELSE output

\* No CompletedProcess.
NoProc == [returncode |-> -1, stdout |-> <<>>, stderr |-> <<>>]

(***************************************************************************)
(* The process environment, and what the agent reads from it.              *)
(***************************************************************************)
\* The environment with no RCA_* variable set.  RCA_PROVIDER is read by the
\* /chat route, the two others when the pipeline is built.
NoEnv ==
    [RCA_PROVIDER |-> None, RCA_TEMPERATURE |-> None, RCA_ENABLE_TOOLS |-> None]

\* The values the variables are given: a number and a word for the
\* temperature, the flag that enables the tools.
EnvValues ==
    [RCA_PROVIDER |-> {None, Str(<<"o", "p", "e", "n", "a", "i">>), Str(<<"g", "p", "t">>)},
     RCA_TEMPERATURE |-> {None, Str(<<"0.7">>), Str(<<"hot">>)},
     RCA_ENABLE_TOOLS |-> {None, Str(<<"1">>)}]

\* os.getenv(name, default) in environment e
getenv(e, name, default) == IF e[name] = None THEN default ELSE e[name].val

\* float(text): the number, or ValueError for text that is no number.
float(text) ==
    CASE text = <<"0">> -> [ok |-> TRUE, val |-> "0.0"]
      [] text = <<"0.7">> -> [ok |-> TRUE, val |-> "0.7"]
      [] OTHER -> [ok |-> FALSE, val |-> "ValueError"]

\* _make_model: temperature = float(os.getenv("RCA_TEMPERATURE", "0")), and
\* 0.0 when that raises ValueError.
temperature(e) ==
    LET f == float(getenv(e, "RCA_TEMPERATURE", <<"0">>)) IN
    IF f.ok THEN f.val ELSE "0.0"

\* _get_or_build_chain: os.getenv("RCA_ENABLE_TOOLS", "0") == "1"
tools_enabled(e) == getenv(e, "RCA_ENABLE_TOOLS", <<"0">>) = <<"1">>

\* How the step that gives the model its tools may end.  _get_tools hands
\* back [] when the tools module cannot be imported (as in this repository,
\* which has no such module), when loading raises and when the module yields
\* no list; a list may be empty; bind_tools may raise, and does for the fake
\* model, which has no such method.
ToolFailures == {"import_error", "load_error", "not_list", "bind_error"}
ToolOutcomes(p) ==
    ToolFailures \cup {"no_tools"} \cup (IF p = "fake" THEN {} ELSE {"bound"})

\* The outcomes of the tools step in environment e for provider p.
bind_tools(e, p) == IF tools_enabled(e) THEN ToolOutcomes(p) ELSE {"disabled"}

\* The model of a pipeline: the temperature it was made with, whether the
\* tools were asked for, and whether it has tools bound.
NoModel == [temperature |-> "", enable_tools |-> FALSE, bound |-> FALSE]

\* Bound of the model: the number of requests the server receives.
MaxRequests == 2
Requests == 1..MaxRequests

\* A request not received yet.
IdleRequest ==
    [pc |-> "idle", route |-> "", message |-> Unset, session_id |-> Unset,
     code |-> Unset, provider |-> Unset, agent |-> FALSE, call |-> 0,
     run |-> 0, status |-> 0, body |-> <<>>]

(***************************************************************************)
(* The chat window of the add-in (Go.pushbutton/script.py).                *)
(***************************************************************************)
\* Bound of the model: the number of worker threads the window starts.
MaxThreads == 3
Threads == 1..MaxThreads

\* A worker thread not started yet.
IdleThread == [pc |-> "idle", name |-> "", result |-> <<>>]

\* ChatWindow.__init__: the controls are enabled as the XAML leaves them, the
\* code box and the conversation are empty, no worker runs.  IsEnabled is
\* that of btnSend, btnNewChat and txtPrompt, which _set_busy sets together.
NewWindow ==
    [IsEnabled |-> TRUE, IsExpanded |-> FALSE, txtCode |-> <<>>,
     panelConversation |-> <<>>, session_id |-> 1,
     threads |-> [w \in Threads |-> IdleThread]]

VARIABLES
    provider,     \* self.provider, set by __init__
    _histories,   \* self._histories: session id -> history object (a heap index)
    heap,         \* the InMemoryChatMessageHistory objects created so far
    _chain,       \* self._chain: 0 for None, else the number of the pipeline object
    builds,       \* the calls that constructed a pipeline object, in order
    frames,       \* the local state of each chat call
    ctor,         \* a call of LangChatAgent.__init__: its locals, the object, its end
    runs,         \* the local state of each run_script call, and its child
    files,        \* the temporary files that exist, each named by the call that made it
    sys_executable, \* whether the file sys.executable names can be executed
    faults,       \* the exception classes this deployment raises when the
                  \* construction of the pipeline, its invocation, or the
                  \* making of a history object fails
    env,          \* os.environ: the RCA_* variables
    requests,     \* the requests the routes of the server handle
    window        \* the ChatWindow of the add-in: its controls and its workers

vars == <<provider, _histories, heap, _chain, builds, frames, ctor, runs, files,
          sys_executable, faults, env, requests, window>>

\* The variables of the chat calls, and those of the other operations.
agentVars == <<provider, _histories, heap, _chain, builds, frames>>
otherVars == <<ctor, runs, files, sys_executable, faults, env, requests, window>>
runnerVars == <<runs, files, sys_executable>>

IdleFrame ==
    [pc |-> "idle", message |-> Unset, session_id |-> Unset, history |-> 0,
     chain |-> 0, model |-> NoModel, tools |-> "", result |-> Unset,
     invocations |-> 0,
     outcome |-> Running]

\* No constructor call made yet: no locals, an object with no attribute set.
IdleCtor ==
    [pc |-> "idle", provider |-> Unset, normalized_provider |-> <<>>,
     self_provider |-> "", attributes |-> {}, outcome |-> Running]

\* A run_script call not made yet.  tmp_name is the file the open `tmp` names
\* and tmp_path the local of that name, 0 for "".
IdleRun ==
    [pc |-> "idle", script |-> Script(TRUE, 0, 0, <<>>, <<>>), timeout |-> 0,
     tmp_name |-> 0, tmp_path |-> 0, child |-> "none", proc |-> NoProc,
     pending |-> Running, outcome |-> Running]

\* LangChatAgent.__init__ with a valid provider: no history, no pipeline.
Init ==
    /\ provider \in Providers
    /\ _histories = <<>>
    /\ heap = <<>>
    /\ _chain = 0
    /\ builds = <<>>
    /\ frames = [c \in Calls |-> IdleFrame]
    /\ ctor = IdleCtor
    /\ runs = [r \in Runs |-> IdleRun]
    /\ files = {}
    /\ sys_executable = TRUE
    /\ faults = [build |-> "ValueError", invoke |-> "RuntimeError", history |-> "none"]
    /\ env = NoEnv
    /\ requests = [k \in Requests |-> IdleRequest]
    /\ window = NewWindow

\* The server before any run_script call, with the interpreter's executable
\* in place or missing; the agent plays no part.
RunInit ==
    /\ provider = "fake"
    /\ _histories = <<>>
    /\ heap = <<>>
    /\ _chain = 0
    /\ builds = <<>>
    /\ frames = [c \in Calls |-> IdleFrame]
    /\ ctor = IdleCtor
    /\ runs = [r \in Runs |-> IdleRun]
    /\ files = {}
    /\ sys_executable \in BOOLEAN
    /\ faults = [build |-> "ValueError", invoke |-> "RuntimeError", history |-> "none"]
    /\ env = NoEnv
    /\ requests = [k \in Requests |-> IdleRequest]
    /\ window = NewWindow

InFlight == {c \in Calls : frames[c].pc \notin {"idle", "done"}}

\* The dict _histories with key k set to v.
Put(d, k, v) == [x \in (DOMAIN d) \cup {k} |-> IF x = k THEN v ELSE d[x]]

\* history.messages.append(t) on heap object h.
AppendTurn(h, t) == [heap EXCEPT ![h].messages = Append(@, t)]

\* The except clauses of chat: what the caller gets when an exception of class
\* e with message d is raised inside chat's try block.
chat_except(e, d) ==
    IF e = "ImportError"
    THEN Raise("ModelProviderError",
               <<"Provider '", provider, "' not available: ">> \o d)
    ELSE IF e \in {"KeyError", "TypeError"}
         THEN Raise("AgentConfigError", <<"Invalid agent configuration: ">> \o d)
         ELSE Raise("ModelProviderError", <<"Error processing message: ">> \o d)

\* _get_or_build_chain, `except Exception as e`: AgentConfigError is raised
\* whatever the class of e, and chat's except clauses handle that one.
build_except(e) ==
    chat_except("AgentConfigError", <<"Failed to build agent chain: ">>)

\* chat, `except Exception as chain_error` around the invocation:
\* ModelProviderError is raised whatever the class of chain_error, and chat's
\* except clauses handle that one.
invoke_except(e) ==
    chat_except("ModelProviderError", <<"Failed to process message: ">>)

\* chat_validate as it would be with the session id left unvalidated.
chat_validate_message_only(c, m, s) ==
    /\ frames[c].pc = "idle"
    /\ IF c = 1 THEN TRUE ELSE frames[c - 1].pc # "idle"
    /\ frames' = [frames EXCEPT
           ![c].message = m,
           ![c].session_id = s,
           ![c].pc = IF Truthy(m) /\ IsStr(m) THEN "history_check" ELSE "done",
           ![c].outcome =
               IF ~Truthy(m) \/ ~IsStr(m)
               THEN Raise("ValueError", <<"Message must be a non-empty string">>)
               ELSE Running]
    /\ UNCHANGED <<provider, _histories, heap, _chain, builds>>

\* chat, entry and input validation.
chat_validate(c, m, s) ==
    /\ frames[c].pc = "idle"
    /\ IF c = 1 THEN TRUE ELSE frames[c - 1].pc # "idle"
    /\ frames' = [frames EXCEPT
           ![c].message = m,
           ![c].session_id = s,
           ![c].pc = IF Truthy(m) /\ IsStr(m) /\ Truthy(s) /\ IsStr(s)
                     THEN "history_check" ELSE "done",
           ![c].outcome =
               IF ~Truthy(m) \/ ~IsStr(m)
               THEN Raise("ValueError", <<"Message must be a non-empty string">>)
               ELSE IF ~Truthy(s) \/ ~IsStr(s)
                    THEN Raise("ValueError", <<"Session ID must be a non-empty string">>)
                    ELSE Running]
    /\ UNCHANGED <<provider, _histories, heap, _chain, builds>>

\* history_check as it would be if the membership test always failed.
history_check_always_create(c) ==
    /\ frames[c].pc = "history_check"
    /\ frames' = [frames EXCEPT ![c].pc = "history_create"]
    /\ UNCHANGED <<provider, _histories, heap, _chain, builds>>

\* _get_or_create_history: `if session_id not in self._histories`
history_check(c) ==
    /\ frames[c].pc = "history_check"
    /\ frames' = [frames EXCEPT ![c].pc =
           IF frames[c].session_id \in DOMAIN _histories
           THEN "history_return" ELSE "history_create"]
    /\ UNCHANGED <<provider, _histories, heap, _chain, builds>>

\* _get_or_create_history's `except Exception`: exception e becomes
\* SessionHistoryError, which is raised inside chat's try block.
history_except(c, e) ==
    chat_except("SessionHistoryError",
                <<"Failed to manage history for session ">> \o frames[c].session_id.val)

\* _get_or_create_history: `self._histories[session_id] = InMemoryChatMessageHistory()`,
\* in which the exception of this deployment may be raised and handled.
history_create(c) ==
    /\ frames[c].pc = "history_create"
    /\ \/ /\ heap' = Append(heap, [key |-> frames[c].session_id, messages |-> <<>>])
          /\ _histories' = Put(_histories, frames[c].session_id, Len(heap) + 1)
          /\ frames' = [frames EXCEPT ![c].pc = "history_return"]
       \/ /\ faults.history # "none"
          /\ frames' = [frames EXCEPT
                 ![c].pc = "done",
                 ![c].outcome = history_except(c, faults.history)]
          /\ UNCHANGED <<heap, _histories>>
    /\ UNCHANGED <<provider, _chain, builds>>

\* history_return as it would be if it handed out the first history created,
\* whatever the session id.
history_return_first(c) ==
    /\ frames[c].pc = "history_return"
    /\ frames' = [frames EXCEPT
           ![c].history = 1,
           ![c].pc = "add_user_message"]
    /\ UNCHANGED <<provider, _histories, heap, _chain, builds>>

\* _get_or_create_history: `return self._histories[session_id]`
history_return(c) ==
    /\ frames[c].pc = "history_return"
    /\ frames' = [frames EXCEPT
           ![c].history = _histories[frames[c].session_id],
           ![c].pc = "add_user_message"]
    /\ UNCHANGED <<provider, _histories, heap, _chain, builds>>

\* chat: `history.add_user_message(message)`
add_user_message(c) ==
    /\ frames[c].pc = "add_user_message"
    /\ heap' = AppendTurn(frames[c].history,
                          Turn("user", frames[c].message.val, c))
    /\ frames' = [frames EXCEPT ![c].pc = "chain_check"]
    /\ UNCHANGED <<provider, _histories, _chain, builds>>

\* _get_or_build_chain: `if self._chain is not None: return self._chain`
chain_check(c) ==
    /\ frames[c].pc = "chain_check"
    /\ frames' = [frames EXCEPT
           ![c].chain = _chain,
           ![c].pc = IF _chain # 0 THEN "respond" ELSE "chain_build"]
    /\ UNCHANGED <<provider, _histories, heap, _chain, builds>>

\* _get_or_build_chain, lines 310 to 336: the model is made with the
\* temperature of the environment, the tools step ends as t, the pipeline is
\* composed, cached and returned.
chain_built(c, t) ==
    /\ builds' = Append(builds, c)
    /\ _chain' = Len(builds) + 1
    /\ frames' = [frames EXCEPT
           ![c].chain = Len(builds) + 1,
           ![c].model = [temperature |-> temperature(env),
                         enable_tools |-> tools_enabled(env),
                         bound |-> (t = "bound")],
           ![c].tools = t,
           ![c].pc = "respond"]

\* chain_build as it would be if the pipeline were cached before the
\* construction is through, and a failed construction left it cached.
chain_build_cache_first(c) ==
    /\ frames[c].pc = "chain_build"
    /\ \/ \E t \in bind_tools(env, provider) : chain_built(c, t)
       \/ /\ provider # "fake"
          /\ builds' = Append(builds, c)
          /\ _chain' = Len(builds) + 1
          /\ frames' = [frames EXCEPT
                 ![c].pc = "done",
                 ![c].outcome = build_except(faults.build)]
    /\ UNCHANGED <<provider, _histories, heap>>

\* chain_build as it would be if a failure of the tools step were raised as
\* the other failures of the construction are.
chain_build_tools_fatal(c) ==
    /\ frames[c].pc = "chain_build"
    /\ \/ \E t \in bind_tools(env, provider) :
             IF t \in ToolFailures
             THEN /\ frames' = [frames EXCEPT
                         ![c].pc = "done",
                         ![c].tools = t,
                         ![c].outcome = build_except("Exception")]
                  /\ UNCHANGED <<_chain, builds>>
             ELSE chain_built(c, t)
       \/ /\ provider # "fake"
          /\ frames' = [frames EXCEPT
                 ![c].pc = "done",
                 ![c].outcome = build_except(faults.build)]
          /\ UNCHANGED <<_chain, builds>>
    /\ UNCHANGED <<provider, _histories, heap>>

\* chain_build as it would be if a failed construction took the user turn
\* back out of the history.
chain_build_rollback(c) ==
    /\ frames[c].pc = "chain_build"
    /\ \/ /\ \E t \in bind_tools(env, provider) : chain_built(c, t)
          /\ UNCHANGED heap
       \/ /\ provider # "fake"
          /\ frames' = [frames EXCEPT
                 ![c].pc = "done",
                 ![c].outcome = build_except(faults.build)]
          /\ heap' = [heap EXCEPT ![frames[c].history].messages =
                          SubSeq(@, 1, Len(@) - 1)]
          /\ UNCHANGED <<_chain, builds>>
    /\ UNCHANGED <<provider, _histories>>

\* _get_or_build_chain: the construction, which caches the pipeline, or in
\* which the exception of this deployment is raised and handled.
chain_build(c) ==
    /\ frames[c].pc = "chain_build"
    /\ \/ \E t \in bind_tools(env, provider) : chain_built(c, t)
       \/ /\ provider # "fake"
          /\ frames' = [frames EXCEPT
                 ![c].pc = "done",
                 ![c].outcome = build_except(faults.build)]
          /\ UNCHANGED <<_chain, builds>>
    /\ UNCHANGED <<provider, _histories, heap>>

\* fake_response as it would be if the reply told the first message of a
\* session from the later ones.
fake_response_counts_turns(c) ==
    /\ frames[c].pc = "respond"
    /\ provider = "fake"
    /\ frames' = [frames EXCEPT
           ![c].result = Str(FakePrefix \o frames[c].message.val
                             \o (IF Len(heap[frames[c].history].messages) > 1
                                 THEN <<" ", "again">> ELSE <<>>)),
           ![c].pc = "validate_result"]
    /\ UNCHANGED <<provider, _histories, heap, _chain, builds>>

\* fake_response as it would be if the reply were the marker alone.
fake_response_no_message(c) ==
    /\ frames[c].pc = "respond"
    /\ provider = "fake"
    /\ frames' = [frames EXCEPT
           ![c].result = Str(FakePrefix),
           ![c].pc = "validate_result"]
    /\ UNCHANGED <<provider, _histories, heap, _chain, builds>>

\* chat, fake provider: result = f"[provider=fake][echo] {message}"
fake_response(c) ==
    /\ frames[c].pc = "respond"
    /\ provider = "fake"
    /\ frames' = [frames EXCEPT
           ![c].result = Str(FakePrefix \o frames[c].message.val),
           ![c].pc = "validate_result"]
    /\ UNCHANGED <<provider, _histories, heap, _chain, builds>>

\* inputs = {"input": message, "history": history.messages}: the list the
\* history object holds, which the user message of this call is already in.
chat_inputs(c) ==
    [input |-> frames[c].message.val,
     history |-> heap[frames[c].history].messages]

\* The prompt of the pipeline applied to the inputs of call c: the system
\* message, MessagesPlaceholder("history"), then ("human", "{input}").
prompt_messages(c, inputs) ==
    <<Turn("system", <<"You are a helpful assistant for Autodesk Revit via pyRevit. ">>, 0)>>
    \o inputs.history
    \o <<Turn("user", inputs.input, c)>>

\* What the model behind the pipeline may hand back for a prompt: anything.
model_invoke(prompt) == BackendResults

\* chain_invoke as it would be if a failed invocation were tried once more.
chain_invoke_retry(c) ==
    /\ frames[c].pc = "respond"
    /\ provider # "fake"
    /\ \/ \E r \in BackendResults :
             frames' = [frames EXCEPT
                 ![c].invocations = @ + 1,
                 ![c].result = r,
                 ![c].pc = "validate_result"]
       \/ frames' = [frames EXCEPT
              ![c].invocations = @ + 1,
              ![c].pc = IF frames[c].invocations = 0 THEN "respond" ELSE "done",
              ![c].outcome =
                  IF frames[c].invocations = 0 THEN Running
                  ELSE invoke_except(faults.invoke)]
    /\ UNCHANGED <<provider, _histories, heap, _chain, builds>>

\* chat, other providers: chain.invoke({"input": message, "history": history.messages}),
\* which hands back a result or raises the exception of this deployment.
chain_invoke(c) ==
    /\ frames[c].pc = "respond"
    /\ provider # "fake"
    /\ \/ \E r \in model_invoke(prompt_messages(c, chat_inputs(c))) :
             frames' = [frames EXCEPT
                 ![c].invocations = @ + 1,
                 ![c].result = r,
                 ![c].pc = "validate_result"]
       \/ frames' = [frames EXCEPT
              ![c].invocations = @ + 1,
              ![c].pc = "done",
              ![c].outcome = invoke_except(faults.invoke)]
    /\ UNCHANGED <<provider, _histories, heap, _chain, builds>>

\* response = str(result) if result is not None else ""
Response(result) == IF result.type = "NoneType" THEN <<>> ELSE result.val

\* validate_result as it would be if the AI message were stored before the
\* response is checked.
validate_result_append_first(c) ==
    /\ frames[c].pc = "validate_result"
    /\ LET response == Response(frames[c].result) IN
       /\ heap' = AppendTurn(frames[c].history, Turn("assistant", response, c))
       /\ frames' = [frames EXCEPT
              ![c].pc = "done",
              ![c].outcome =
                  IF Len(response) = 0
                  THEN chat_except("ModelProviderError",
                                   <<"Model returned empty response">>)
                  ELSE Return(response)]
    /\ UNCHANGED <<provider, _histories, _chain, builds>>

\* chat: validate the result, store the AI message, return.
validate_result(c) ==
    /\ frames[c].pc = "validate_result"
    /\ LET response == Response(frames[c].result) IN
       IF Len(response) = 0
       THEN /\ frames' = [frames EXCEPT
                   ![c].pc = "done",
                   ![c].outcome = chat_except("ModelProviderError",
                                      <<"Model returned empty response">>)]
            /\ UNCHANGED heap
       ELSE /\ heap' = AppendTurn(frames[c].history,
                                  Turn("assistant", response, c))
            /\ frames' = [frames EXCEPT
                   ![c].pc = "done",
                   ![c].outcome = Return(response)]
    /\ UNCHANGED <<provider, _histories, _chain, builds>>

\* One step of a call that is past its entry.
Step(c) ==
    \/ history_check(c)
    \/ history_create(c)
    \/ history_return(c)
    \/ add_user_message(c)
    \/ chain_check(c)
    \/ chain_build(c)
    \/ fake_response(c)
    \/ chain_invoke(c)
    \/ validate_result(c)

\* Calls made from the worker threads, each running one call at a time.
Next ==
    /\ \/ \E c \in Calls, m \in Messages, s \in SessionIds :
             Cardinality(InFlight) < Cardinality(Workers) /\ chat_validate(c, m, s)
       \/ \E c \in Calls : Step(c)
    /\ UNCHANGED otherVars

Spec == Init /\ [][Next]_vars

\* Calls made one after the other: a call starts when no other is running.
SeqNext ==
    /\ \/ \E c \in Calls, m \in Messages, s \in SessionIds :
             InFlight = {} /\ chat_validate(c, m, s)
       \/ \E c \in Calls : Step(c)
    /\ UNCHANGED otherVars

SeqSpec == Init /\ [][SeqNext]_vars

\* Calls made one after the other, in a deployment of any failure classes.
ErrInit ==
    /\ provider \in Providers
    /\ _histories = <<>>
    /\ heap = <<>>
    /\ _chain = 0
    /\ builds = <<>>
    /\ frames = [c \in Calls |-> IdleFrame]
    /\ ctor = IdleCtor
    /\ runs = [r \in Runs |-> IdleRun]
    /\ files = {}
    /\ sys_executable = TRUE
    /\ faults \in [build : BuildErrors, invoke : InvokeErrors, history : HistoryErrors]
    /\ env = NoEnv
    /\ requests = [k \in Requests |-> IdleRequest]
    /\ window = NewWindow

ErrSpec == ErrInit /\ [][SeqNext]_vars

\* Calls made one after the other, with the wider choice of messages.
EchoNext ==
    /\ \/ \E c \in Calls, m \in EchoMessages, s \in SessionIds :
             InFlight = {} /\ chat_validate(c, m, s)
       \/ \E c \in Calls : Step(c)
    /\ UNCHANGED otherVars

EchoSpec == Init /\ [][EchoNext]_vars

\* os.environ[name] = v, or its removal: made by the process or for it.
setenv(name, v) ==
    /\ v # env[name]
    /\ env' = [env EXCEPT ![name] = v]

\* Calls of one session made one after the other, in an environment whose
\* settings of the backend change at any moment.
EnvNext ==
    \/ /\ \/ \E c \in Calls :
                InFlight = {} /\ chat_validate(c, Str(<<"a">>), Str(<<"s1">>))
          \/ \E c \in Calls : Step(c)
       /\ UNCHANGED otherVars
    \/ /\ \E name \in {"RCA_TEMPERATURE", "RCA_ENABLE_TOOLS"} :
             \E v \in EnvValues[name] : setenv(name, v)
       /\ UNCHANGED <<agentVars, ctor, runnerVars, faults, requests, window>>

EnvSpec == Init /\ [][EnvNext]_vars

(***************************************************************************)
(* LangChatAgent.__init__, step by step.                                   *)
(***************************************************************************)

\* init_normalize as it would be if an empty provider were left empty.
init_normalize_no_default(p) ==
    /\ ctor.pc \in {"idle", "done"}
    /\ ctor' = [IdleCtor EXCEPT
           !.pc = "resolve",
           !.provider = p,
           !.normalized_provider = Strip(Lower(IF Truthy(p) THEN p.val ELSE <<>>))]

\* normalized_provider = (provider or "").lower().strip(), "fake" if empty.
init_normalize(p) ==
    /\ ctor.pc \in {"idle", "done"}
    /\ LET n == Strip(Lower(IF Truthy(p) THEN p.val ELSE <<>>)) IN
       ctor' = [IdleCtor EXCEPT
           !.pc = "resolve",
           !.provider = p,
           !.normalized_provider = IF Len(n) = 0 THEN <<"f", "a", "k", "e">> ELSE n]

\* init_resolve as it would be if an unknown provider fell back to the fake one.
init_resolve_fallback ==
    /\ ctor.pc = "resolve"
    /\ LET n == ctor.normalized_provider
           found == {i \in DOMAIN ProviderEnum : ProviderEnum[i].value = n} IN
       ctor' = [ctor EXCEPT
           !.self_provider =
               IF n = <<"c", "l", "a", "u", "d", "e">> THEN "ANTHROPIC"
               ELSE IF found # {} THEN ProviderEnum[CHOOSE i \in found : TRUE].name
                    ELSE "FAKE",
           !.attributes = {"provider"},
           !.pc = "attributes"]

\* The lookup in the enum: self.provider is set, or ValueError is raised with
\* the message that lists the enum's values.
init_resolve ==
    /\ ctor.pc = "resolve"
    /\ LET n == ctor.normalized_provider
           found == {i \in DOMAIN ProviderEnum : ProviderEnum[i].value = n} IN
       IF n = <<"c", "l", "a", "u", "d", "e">>
       THEN ctor' = [ctor EXCEPT !.self_provider = "ANTHROPIC",
                                 !.attributes = {"provider"},
                                 !.pc = "attributes"]
       ELSE IF found # {}
            THEN ctor' = [ctor EXCEPT
                     !.self_provider = ProviderEnum[CHOOSE i \in found : TRUE].name,
                     !.attributes = {"provider"},
                     !.pc = "attributes"]
            ELSE ctor' = [ctor EXCEPT
                     !.pc = "done",
                     !.outcome = Raise("ValueError",
                                       InvalidProviderMessage(ctor.provider))]

\* self._histories = {}; self._chain = None; self._logger = ...; the object is
\* handed to the caller.
init_attributes ==
    /\ ctor.pc = "attributes"
    /\ ctor' = [ctor EXCEPT
           !.attributes = @ \cup {"_histories", "_chain", "_logger"},
           !.pc = "done",
           !.outcome = Return(<<>>)]

\* Constructor calls, one after the other, with any of the arguments.
CtorNext ==
    /\ \/ \E p \in ProviderArgs : init_normalize(p)
       \/ init_resolve
       \/ init_attributes
    /\ UNCHANGED <<agentVars, runnerVars, faults, env, window, requests>>

\* Before any constructor call; the agent of the chat calls plays no part.
CtorInit == Init /\ provider = "fake"

CtorSpec == CtorInit /\ [][CtorNext]_vars

(***************************************************************************)
(* run_script, step by step.                                               *)
(***************************************************************************)

RunInFlight == {r \in Runs : runs[r].pc \notin {"idle", "done"}}

\* run_script(script, timeout): entry, `tmp_path = ""`.
run_script(r, script, timeout) ==
    /\ runs[r].pc = "idle"
    /\ IF r = 1 THEN TRUE ELSE runs[r - 1].pc # "idle"
    /\ runs' = [runs EXCEPT ![r] =
           [IdleRun EXCEPT !.pc = "create", !.script = script,
                           !.timeout = timeout]]
    /\ UNCHANGED files

\* tempfile.NamedTemporaryFile("w", delete=False, suffix=".py"): a new file of
\* a name no other call has.
create_temp(r) ==
    /\ runs[r].pc = "create"
    /\ files' = files \cup {r}
    /\ runs' = [runs EXCEPT ![r].tmp_name = r, ![r].pc = "write"]

\* write_script as it would be if the name were kept before the text is
\* written.
write_script_name_first(r) ==
    /\ runs[r].pc = "write"
    /\ IF runs[r].script.encodable
       THEN runs' = [runs EXCEPT ![r].tmp_path = runs[r].tmp_name,
                                 ![r].pc = "launch"]
       ELSE runs' = [runs EXCEPT
                ![r].tmp_path = runs[r].tmp_name,
                ![r].pending = Raise("UnicodeEncodeError", <<>>),
                ![r].pc = "finally"]
    /\ UNCHANGED files

\* tmp.write(script); tmp.flush(); tmp_path = tmp.name; the file is closed.
\* A write that raises leaves the with block before tmp_path is assigned.
write_script(r) ==
    /\ runs[r].pc = "write"
    /\ IF runs[r].script.encodable
       THEN runs' = [runs EXCEPT ![r].tmp_path = runs[r].tmp_name,
                                 ![r].pc = "launch"]
       ELSE runs' = [runs EXCEPT
                ![r].pending = Raise("UnicodeEncodeError", <<>>),
                ![r].pc = "finally"]
    /\ UNCHANGED files

\* subprocess.run starts [sys.executable, tmp_path]: the child runs, or the
\* executable is not there and FileNotFoundError is raised, which no except
\* clause of run_script catches.
launch(r) ==
    /\ runs[r].pc = "launch"
    /\ IF sys_executable
       THEN runs' = [runs EXCEPT ![r].child = "running", ![r].pc = "wait"]
       ELSE runs' = [runs EXCEPT
                ![r].pending = Raise("FileNotFoundError", <<>>),
                ![r].pc = "finally"]
    /\ UNCHANGED files

\* child_exit as it would be if a child that ends at once beat a timeout
\* of zero.
child_exit_at_deadline(r) ==
    /\ runs[r].pc = "wait"
    /\ runs[r].script.duration <= runs[r].timeout
    /\ runs' = [runs EXCEPT
           ![r].child = "exited",
           ![r].proc = [returncode |-> runs[r].script.returncode,
                        stdout |-> runs[r].script.stdout,
                        stderr |-> runs[r].script.stderr],
           ![r].pc = "format"]
    /\ UNCHANGED files

\* subprocess.run returns: the child exited before the timeout elapsed.
child_exit(r) ==
    /\ runs[r].pc = "wait"
    /\ runs[r].script.duration < runs[r].timeout
    /\ runs' = [runs EXCEPT
           ![r].child = "exited",
           ![r].proc = [returncode |-> runs[r].script.returncode,
                        stdout |-> runs[r].script.stdout,
                        stderr |-> runs[r].script.stderr],
           ![r].pc = "format"]
    /\ UNCHANGED files

\* timeout_expired as it would be if subprocess.run were given no timeout:
\* the call goes on waiting.
timeout_expired_never(r) ==
    /\ runs[r].pc = "wait"
    /\ ~(runs[r].script.duration < runs[r].timeout)
    /\ UNCHANGED <<runs, files>>

\* timeout_expired as it would be if the child were left running.
timeout_expired_child_left(r) ==
    /\ runs[r].pc = "wait"
    /\ ~(runs[r].script.duration < runs[r].timeout)
    /\ runs' = [runs EXCEPT
           ![r].pending = Return(TimeoutSentinel),
           ![r].pc = "finally"]
    /\ UNCHANGED files

\* The timeout elapses with the child still running: subprocess.run kills the
\* child, waits for it and raises TimeoutExpired; `except
\* subprocess.TimeoutExpired` returns the sentinel.
timeout_expired(r) ==
    /\ runs[r].pc = "wait"
    /\ ~(runs[r].script.duration < runs[r].timeout)
    /\ runs' = [runs EXCEPT
           ![r].child = "killed",
           ![r].pending = Return(TimeoutSentinel),
           ![r].pc = "finally"]
    /\ UNCHANGED files

\* The child exited: the text to return is made of its stdout and stderr.
return_output(r) ==
    /\ runs[r].pc = "format"
    /\ runs' = [runs EXCEPT
           ![r].pending = Return(format_output(runs[r].proc.returncode,
                                               runs[r].proc.stdout,
                                               runs[r].proc.stderr)),
           ![r].pc = "finally"]
    /\ UNCHANGED files

\* finally: `if tmp_path and os.path.exists(tmp_path): os.remove(tmp_path)`;
\* then the caller gets the value returned or the exception raised.
cleanup(r) ==
    /\ runs[r].pc = "finally"
    /\ files' = IF runs[r].tmp_path # 0 /\ runs[r].tmp_path \in files
                THEN files \ {runs[r].tmp_path}
                ELSE files
    /\ runs' = [runs EXCEPT ![r].outcome = runs[r].pending, ![r].pc = "done"]

RunStep(r) ==
    \/ create_temp(r)
    \/ write_script(r)
    \/ launch(r)
    \/ child_exit(r)
    \/ timeout_expired(r)
    \/ return_output(r)
    \/ cleanup(r)

\* run_script calls made one after the other, as the tests make them.
RunNext ==
    /\ \/ \E r \in Runs, call \in Invocations :
             RunInFlight = {} /\ run_script(r, call[1], call[2])
       \/ \E r \in Runs : RunStep(r)
    /\ UNCHANGED <<agentVars, ctor, sys_executable, faults, env, window, requests>>

RunSpec == RunInit /\ [][RunNext]_vars

\* The same calls, in which the thread of a call is always scheduled in the
\* end, the child runs for its time and the clock of the timeout advances.
RunLiveSpec ==
    /\ RunInit
    /\ [][RunNext]_vars
    /\ \A r \in Runs :
          WF_vars(RunStep(r)
                  /\ UNCHANGED <<agentVars, ctor, sys_executable, faults, env, window, requests>>)

(***************************************************************************)
(* The routes of the server (server/src/api/routes.py).  The route         *)
(* functions are plain `def` functions, which FastAPI runs each in a       *)
(* thread of its pool, so that the requests being handled interleave.  The *)
(* /chat route makes an agent of its own for every request; the agent      *)
(* variables hold the agent of the /chat request being handled, and the    *)
(* histories and pipelines of earlier agents stay in heap and builds.      *)
(***************************************************************************)

\* The threads of the pool that runs the route functions.
ThreadPoolSize == 40

\* timeout: int = 30
DefaultTimeout == 30

\* The bodies sent to POST /chat: the message and the session of the route's
\* test in short, and blank ones.
ChatBodies ==
    [message : {Str(<<"a">>), Str(<<>>), Str(<<" ">>)},
     session_id : {Str(<<"s1">>), Str(<<" ">>)}]

\* The code sent to POST /execute: a script that prints, one that never ends
\* by itself, and one the temporary file cannot take.
ExecuteBodies ==
    { Script(TRUE, 0, 0, <<"ok", "\n">>, <<>>),
      Script(TRUE, 60, 0, <<>>, <<>>),
      Script(FALSE, 0, 0, <<>>, <<>>) }

\* The requests being handled.
Handling == {k \in Requests : requests[k].pc \notin {"idle", "done"}}

\* thread_available as it would be if the server had a single thread.
thread_available_single == Handling = {}

\* A thread of the pool is free to run a route function.
thread_available == Cardinality(Handling) < ThreadPoolSize

\* Request k is the next to come in.
Incoming(k) ==
    /\ requests[k].pc = "idle"
    /\ IF k = 1 THEN TRUE ELSE requests[k - 1].pc # "idle"

\* raise HTTPException(status_code=status, detail=detail) leaving the route.
HTTPException(k, status, detail) ==
    [requests EXCEPT ![k].pc = "done", ![k].status = status, ![k].body = detail]

\* The except clauses of the /chat route for exception e of message d raised
\* in its try block.  HTTPException is an Exception and neither a ValueError
\* nor an ImportError, so the one the validation raises ends in the last.
chat_route_except(k, e, d) ==
    IF e = "ValueError"
    THEN HTTPException(k, 400, <<"Invalid input: ">> \o d)
    ELSE IF e = "ImportError"
         THEN HTTPException(k, 404, <<"Provider not available: ">> \o d)
         ELSE HTTPException(k, 500, <<"Internal server error: ">> \o d)

\* self.provider as chat compares it: the fake provider or another.
provider_value(name) ==
    CASE name = "FAKE" -> "fake"
      [] name = "OPENAI" -> "openai"
      [] name = "ANTHROPIC" -> "anthropic"
      [] OTHER -> "ollama"

\* GET /health: {"status": "ok"}
health(k) ==
    /\ Incoming(k)
    /\ thread_available
    /\ requests' = [requests EXCEPT ![k] =
           [IdleRequest EXCEPT !.pc = "done", !.route = "/health",
                               !.status = 200, !.body = <<"ok">>]]
    /\ UNCHANGED <<agentVars, ctor, runnerVars, faults, env, window>>

\* POST /chat comes in with a body of two strings; the route function
\* starts: provider = os.getenv("RCA_PROVIDER", "fake").
chat_request(k, b) ==
    /\ Incoming(k)
    /\ thread_available
    /\ requests' = [requests EXCEPT ![k] =
           [IdleRequest EXCEPT
               !.pc = "validate", !.route = "/chat",
               !.message = b.message, !.session_id = b.session_id,
               !.provider = Str(getenv(env, "RCA_PROVIDER", <<"f", "a", "k", "e">>))]]
    /\ UNCHANGED <<agentVars, ctor, runnerVars, faults, env, window>>

\* `if not req.message.strip(): raise HTTPException(400, ...)`, the same for
\* session_id; both raised inside the try block.
chat_route_validate(k) ==
    /\ requests[k].pc = "validate"
    /\ requests' =
           IF Len(Strip(requests[k].message.val)) = 0
           THEN chat_route_except(k, "HTTPException", <<"Message cannot be empty">>)
           ELSE IF Len(Strip(requests[k].session_id.val)) = 0
                THEN chat_route_except(k, "HTTPException",
                                       <<"Session ID cannot be empty">>)
                ELSE [requests EXCEPT ![k].pc = "construct"]
    /\ UNCHANGED <<agentVars, ctor, runnerVars, faults, env, window>>

\* agent = LangChatAgent(provider=provider): the constructor is entered.
chat_route_construct(k) ==
    /\ requests[k].pc = "construct"
    /\ init_normalize(requests[k].provider)
    /\ requests' = [requests EXCEPT ![k].pc = "constructing"]
    /\ UNCHANGED <<agentVars, runnerVars, faults, env, window>>

\* The constructor goes on.
chat_route_init(k) ==
    /\ requests[k].pc = "constructing"
    /\ init_resolve \/ init_attributes
    /\ UNCHANGED <<agentVars, runnerVars, faults, env, window, requests>>

\* The constructor is over: the route has its new agent, with no history and
\* no pipeline, or the ValueError of the constructor reaches the except clauses.
chat_route_agent(k) ==
    /\ requests[k].pc = "constructing"
    /\ ctor.pc = "done"
    /\ IF ctor.outcome.kind = "raise"
       THEN /\ requests' = chat_route_except(k, ctor.outcome.exc, ctor.outcome.detail)
            /\ UNCHANGED <<provider, _histories, _chain>>
       ELSE /\ requests' = [requests EXCEPT ![k].pc = "chat", ![k].agent = TRUE]
            /\ provider' = provider_value(ctor.self_provider)
            /\ _histories' = <<>>
            /\ _chain' = 0
    /\ UNCHANGED <<heap, builds, frames, ctor, runnerVars, faults, env, window>>

\* response = agent.chat(message=req.message, session_id=req.session_id):
\* the call is entered.
chat_route_call(k) ==
    /\ requests[k].pc = "chat"
    /\ \E c \in Calls :
          /\ chat_validate(c, requests[k].message, requests[k].session_id)
          /\ requests' = [requests EXCEPT ![k].call = c, ![k].pc = "chatting"]
    /\ UNCHANGED <<ctor, runnerVars, faults, env, window>>

\* The chat call goes on.
chat_route_chat(k) ==
    /\ requests[k].pc = "chatting"
    /\ Step(requests[k].call)
    /\ UNCHANGED otherVars

\* The chat call is over: `return {"response": response}`, or its exception
\* reaches the except clauses.
chat_route_respond(k) ==
    /\ requests[k].pc = "chatting"
    /\ frames[requests[k].call].pc = "done"
    /\ LET outcome == frames[requests[k].call].outcome IN
       requests' =
           IF outcome.kind = "return"
           THEN [requests EXCEPT ![k].pc = "done", ![k].status = 200,
                                 ![k].body = outcome.value]
           ELSE chat_route_except(k, outcome.exc, outcome.detail)
    /\ UNCHANGED <<agentVars, ctor, runnerVars, faults, env, window>>

\* POST /execute comes in; the route function starts:
\* runner.run_script(script=req.code), with the default timeout.
execute_request(k, code) ==
    /\ Incoming(k)
    /\ thread_available
    /\ \E r \in Runs :
          /\ run_script(r, code, DefaultTimeout)
          /\ requests' = [requests EXCEPT ![k] =
                 [IdleRequest EXCEPT !.pc = "running", !.route = "/execute",
                                     !.code = code, !.run = r]]
    /\ UNCHANGED <<agentVars, ctor, sys_executable, faults, env, window>>

\* run_script goes on.
execute_run(k) ==
    /\ requests[k].pc = "running"
    /\ RunStep(requests[k].run)
    /\ UNCHANGED <<agentVars, ctor, sys_executable, faults, env, window, requests>>

\* execute_respond as it would be if the route had no except clause of its
\* own and the server answered an exception with its text.
execute_respond_no_except(k) ==
    /\ requests[k].pc = "running"
    /\ runs[requests[k].run].pc = "done"
    /\ LET outcome == runs[requests[k].run].outcome IN
       requests' =
           IF outcome.kind = "return"
           THEN [requests EXCEPT ![k].pc = "done", ![k].status = 200,
                                 ![k].body = outcome.value]
           ELSE HTTPException(k, 500, <<outcome.exc>>)
    /\ UNCHANGED <<agentVars, ctor, runnerVars, faults, env, window>>

\* run_script is over: `return {"output": output}`, or `except Exception`
\* raises HTTPException(500, "Execution failed").
execute_respond(k) ==
    /\ requests[k].pc = "running"
    /\ runs[requests[k].run].pc = "done"
    /\ LET outcome == runs[requests[k].run].outcome IN
       requests' =
           IF outcome.kind = "return"
           THEN [requests EXCEPT ![k].pc = "done", ![k].status = 200,
                                 ![k].body = outcome.value]
           ELSE HTTPException(k, 500, <<"Execution failed">>)
    /\ UNCHANGED <<agentVars, ctor, runnerVars, faults, env, window>>

\* One step of a /chat request being handled.
ChatHandle(k) ==
    \/ chat_route_validate(k)
    \/ chat_route_construct(k)
    \/ chat_route_init(k)
    \/ chat_route_agent(k)
    \/ chat_route_call(k)
    \/ chat_route_chat(k)
    \/ chat_route_respond(k)

\* One step of an /execute request being handled.
ExecuteHandle(k) ==
    \/ execute_run(k)
    \/ execute_respond(k)

\* One step of a request being handled.
Handle(k) == ChatHandle(k) \/ ExecuteHandle(k)

\* No /chat request is being handled.
NoChatHandled == \A k \in Requests : requests[k].route = "/chat" => requests[k].pc = "done"

\* The server: requests come in while others are handled.  The model has
\* the variables of one agent, so a /chat request comes in when no other is
\* being handled; /execute and /health requests come in at any moment.
ServerNext ==
    \/ \E k \in Requests : health(k)
    \/ \E k \in Requests, b \in ChatBodies : NoChatHandled /\ chat_request(k, b)
    \/ \E k \in Requests, code \in ExecuteBodies : execute_request(k, code)
    \/ \E k \in Requests : Handle(k)

\* The server started in an environment with any setting of RCA_PROVIDER; the
\* package of the provider may be missing, so that the construction of the
\* pipeline raises ImportError.
ServerInit ==
    /\ provider = "fake"
    /\ _histories = <<>>
    /\ heap = <<>>
    /\ _chain = 0
    /\ builds = <<>>
    /\ frames = [c \in Calls |-> IdleFrame]
    /\ ctor = IdleCtor
    /\ runs = [r \in Runs |-> IdleRun]
    /\ files = {}
    /\ sys_executable = TRUE
    /\ faults \in [build : {"ValueError", "ImportError"}, invoke : {"RuntimeError"},
                   history : {"none"}]
    /\ env \in [RCA_PROVIDER : EnvValues.RCA_PROVIDER,
                RCA_TEMPERATURE : {None}, RCA_ENABLE_TOOLS : {None}]
    /\ requests = [k \in Requests |-> IdleRequest]
    /\ window = NewWindow

ServerSpec == ServerInit /\ [][ServerNext]_vars

\* The providers callers pass to the constructor themselves: none, empty and
\* blank ones, a known one and an unknown one.
DirectProviderArgs ==
    {None, Str(<<>>), Str(<<" ">>), Str(<<"\n", " ">>),
     Str(<<"o", "p", "e", "n", "a", "i">>), Str(<<"g", "p", "t">>)}

\* Agents made in every environment: by /chat requests of one message, one
\* after the other, and by callers of the constructor between them.
DefaultsNext ==
    \/ /\ NoChatHandled
       /\ \/ \E p \in DirectProviderArgs : init_normalize(p)
          \/ init_resolve
          \/ init_attributes
       /\ UNCHANGED <<agentVars, runnerVars, faults, env, window, requests>>
    \/ \E k \in Requests :
          /\ NoChatHandled
          /\ ctor.pc \in {"idle", "done"}
          /\ chat_request(k, [message |-> Str(<<"a">>), session_id |-> Str(<<"s1">>)])
    \/ \E k \in Requests : ChatHandle(k)

\* The server started in an environment with any setting of RCA_PROVIDER
\* and of RCA_TEMPERATURE.
DefaultsInit ==
    /\ provider = "fake"
    /\ _histories = <<>>
    /\ heap = <<>>
    /\ _chain = 0
    /\ builds = <<>>
    /\ frames = [c \in Calls |-> IdleFrame]
    /\ ctor = IdleCtor
    /\ runs = [r \in Runs |-> IdleRun]
    /\ files = {}
    /\ sys_executable = TRUE
    /\ faults = [build |-> "ValueError", invoke |-> "RuntimeError", history |-> "none"]
    /\ env \in [RCA_PROVIDER : EnvValues.RCA_PROVIDER,
                RCA_TEMPERATURE : EnvValues.RCA_TEMPERATURE,
                RCA_ENABLE_TOOLS : {None}]
    /\ requests = [k \in Requests |-> IdleRequest]
    /\ window = NewWindow

DefaultsSpec == DefaultsInit /\ [][DefaultsNext]_vars

(***************************************************************************)
(* What the claims speak of.                                               *)
(***************************************************************************)

\* The messages of the history the agent holds for session s.
Stored(s) == IF s \in DOMAIN _histories THEN heap[_histories[s]].messages ELSE <<>>

\* history.messages, as call c sees it through its local reference.
Held(c) == IF frames[c].history = 0 THEN <<>> ELSE heap[frames[c].history].messages

UserTurn(c) == Turn("user", frames[c].message.val, c)
AssistantTurn(c) == Turn("assistant", frames[c].outcome.value, c)

Invalid(v) == ~Truthy(v) \/ ~IsStr(v)
Validated(c) == frames[c].pc # "idle" /\ frames[c].outcome.exc # "ValueError"
Returned(c) == frames[c].pc = "done" /\ frames[c].outcome.kind = "return"
\* The call passed validation and then raised.
FailedLate(c) ==
    /\ frames[c].pc = "done"
    /\ frames[c].outcome.kind = "raise"
    /\ frames[c].outcome.exc # "ValueError"

Range(q) == {q[i] : i \in DOMAIN q}
IsPrefix(a, b) == Len(a) <= Len(b) /\ SubSeq(b, 1, Len(a)) = a
\* Every turn any history object holds.
AllTurns == UNION {Range(heap[h].messages) : h \in DOMAIN heap}
\* text.strip() == ""
BlankText(t) == \A i \in DOMAIN t : t[i] = " "

(***************************************************************************)
(* C1.  Calls made one after the other (SeqSpec).  When a call for a       *)
(* session is about to obtain its response, the history it holds contains  *)
(* the user turn and, right after it, the assistant turn of every earlier  *)
(* successful call for that session, and ends with the call's own user     *)
(* turn; so the history it finds is strictly longer than the one the       *)
(* earlier call found, which ended with that call's user turn.             *)
(***************************************************************************)
C1_GrowingHistory ==
    \A c1, c2 \in Calls :
        ( /\ c1 < c2
          /\ Returned(c1)
          /\ frames[c2].session_id = frames[c1].session_id
          /\ frames[c2].pc = "respond" )
        => LET h == Held(c2) IN
           /\ Len(h) >= 3
           /\ h[Len(h)] = UserTurn(c2)
           /\ \E i \in 1..(Len(h) - 2) :
                 /\ h[i] = UserTurn(c1)
                 /\ h[i + 1] = AssistantTurn(c1)
                 /\ Len(h) > i

C1_Witness ==
    \E c1, c2 \in Calls :
        /\ c1 < c2
        /\ Returned(c1)
        /\ frames[c2].session_id = frames[c1].session_id
        /\ frames[c2].pc = "respond"
        /\ Held(c2) = <<UserTurn(c1), AssistantTurn(c1), UserTurn(c2)>>

(***************************************************************************)
(* C2.  Isolation of sessions.  Every turn of a history created for        *)
(* session A was written by a call made with session id A, a call holds    *)
(* (reads and appends to) only a history created for its own session id,   *)
(* and a step of a call made with another session id leaves A's entry and  *)
(* A's history as they were.                                               *)
(***************************************************************************)
C2_OwnTurnsOnly ==
    /\ \A h \in DOMAIN heap : \A t \in Range(heap[h].messages) :
           frames[t.call].session_id = heap[h].key
    /\ \A c \in Calls :
           frames[c].history # 0 => heap[frames[c].history].key = frames[c].session_id

C2_OtherSessionUntouched ==
    \A c \in Calls : \A s \in DOMAIN _histories :
        (frames'[c] # frames[c] /\ frames'[c].session_id # s)
        => /\ s \in DOMAIN _histories'
           /\ _histories'[s] = _histories[s]
           /\ heap'[_histories[s]] = heap[_histories[s]]

C2_Isolation == []C2_OwnTurnsOnly /\ [][C2_OtherSessionUntouched]_vars

C2_Witness ==
    \E c1, c2 \in Calls :
        /\ frames[c1].session_id # frames[c2].session_id
        /\ Returned(c1)
        /\ Returned(c2)
        /\ Len(Stored(frames[c1].session_id)) = 2
        /\ Len(Stored(frames[c2].session_id)) = 2

(***************************************************************************)
(* C3.  No lost update: once every call has returned, the history the      *)
(* agent holds for a session contains the user turn of every call made for *)
(* it that passed validation and the assistant turn of every such call     *)
(* that returned successfully.                                             *)
(***************************************************************************)
C3_NoLostUpdate ==
    (InFlight = {}) =>
        \A c \in Calls :
            Validated(c) =>
                /\ UserTurn(c) \in Range(Stored(frames[c].session_id))
                /\ Returned(c) =>
                       AssistantTurn(c) \in Range(Stored(frames[c].session_id))

(***************************************************************************)
(* C4.  Exactly one history object is ever created for a session id, and   *)
(* every caller of _get_or_create_history for that id receives it.         *)
(***************************************************************************)
C4_OneHistoryPerSession ==
    /\ \A i, j \in DOMAIN heap : heap[i].key = heap[j].key => i = j
    /\ \A c1, c2 \in Calls :
           ( /\ frames[c1].session_id = frames[c2].session_id
             /\ frames[c1].history # 0
             /\ frames[c2].history # 0 )
           => frames[c1].history = frames[c2].history

(***************************************************************************)
(* C5.  With the fake provider, once the concurrent calls have returned,   *)
(* every call that passed validation has returned a response, and each     *)
(* session's history holds exactly two turns per call made for it, all of  *)
(* them written by calls for that session.                                 *)
(***************************************************************************)
C5_TwoTurnsPerCall ==
    (provider = "fake" /\ InFlight = {}) =>
        /\ \A c \in Calls : Validated(c) => Returned(c)
        /\ \A s \in {k \in SessionIds : ~Invalid(k)} :
              /\ Len(Stored(s)) =
                    2 * Cardinality({c \in Calls :
                                       Validated(c) /\ frames[c].session_id = s})
              /\ \A t \in Range(Stored(s)) : frames[t.call].session_id = s

(***************************************************************************)
(* C6.  A call whose message or session id is empty or not a string ends   *)
(* at once with ValueError and has no effect: it obtained no history,      *)
(* built and invoked no pipeline, wrote no turn, no history exists for an  *)
(* invalid session id, and its one step leaves the histories, the history  *)
(* objects and the pipeline cache unchanged.                               *)
(***************************************************************************)
C6_RejectedCallDidNothing ==
    /\ \A c \in Calls :
           ( /\ frames[c].pc # "idle"
             /\ Invalid(frames[c].message) \/ Invalid(frames[c].session_id) )
           => /\ frames[c].pc = "done"
              /\ frames[c].outcome.kind = "raise"
              /\ frames[c].outcome.exc = "ValueError"
              /\ frames[c].history = 0
              /\ frames[c].chain = 0
              /\ frames[c].invocations = 0
              /\ c \notin Range(builds)
              /\ \A t \in AllTurns : t.call # c
    /\ \A k \in DOMAIN _histories : ~Invalid(k)
    /\ \A h \in DOMAIN heap : ~Invalid(heap[h].key)

C6_RejectionStepChangesNothing ==
    \A c \in Calls :
        (frames[c].pc = "idle" /\ frames'[c].outcome.exc = "ValueError")
        => UNCHANGED <<provider, _histories, heap, _chain, builds>>

C6_ValidationBeforeSideEffects ==
    []C6_RejectedCallDidNothing /\ [][C6_RejectionStepChangesNothing]_vars

C6_Witness ==
    \E c1, c2 \in Calls :
        /\ Returned(c1)
        /\ frames[c2].outcome.exc = "ValueError"
        /\ ~Invalid(frames[c2].message)
        /\ Invalid(frames[c2].session_id)
        /\ heap # <<>>

(***************************************************************************)
(* C7.  Calls made one after the other (SeqSpec).  A call that builds or   *)
(* invokes the pipeline has already appended its user turn; and when a     *)
(* call that passed validation fails, its user turn stays in the session's *)
(* history, where every later entry was written by a later call (it is the *)
(* last entry when the call fails), and the call left no assistant turn.   *)
(***************************************************************************)
C7_UserTurnBeforeInvocation ==
    \A c \in Calls :
        /\ ( \/ frames[c].pc \in {"chain_build", "respond", "validate_result"}
             \/ c \in Range(builds)
             \/ frames[c].invocations > 0 )
           => UserTurn(c) \in Range(Held(c))
        /\ FailedLate(c)
           => LET h == Stored(frames[c].session_id) IN
              /\ \E i \in DOMAIN h :
                    /\ h[i] = UserTurn(c)
                    /\ \A j \in DOMAIN h : j > i => h[j].call > c
              /\ (\A d \in Calls : d > c => frames[d].pc = "idle")
                 => (h # <<>> /\ h[Len(h)] = UserTurn(c))

C7_Witness ==
    \E c \in Calls :
        /\ FailedLate(c)
        /\ frames[c].invocations = 1
        /\ frames[c].result = Unset
        /\ Len(Stored(frames[c].session_id)) = 3
        /\ Stored(frames[c].session_id)[3] = UserTurn(c)

(***************************************************************************)
(* C8.  Every assistant turn of every history was written by a call that   *)
(* returned successfully and holds exactly the text that call returned; a  *)
(* successful call's turn is in the history it holds, and a call that      *)
(* raised wrote none.                                                      *)
(***************************************************************************)
C8_AssistantTurnOnlyOnSuccess ==
    /\ \A t \in AllTurns :
           t.role = "assistant"
           => /\ Returned(t.call)
              /\ t.content = frames[t.call].outcome.value
    /\ \A c \in Calls :
           Returned(c) => AssistantTurn(c) \in Range(Held(c))

C8_Witness ==
    \E c1, c2 \in Calls :
        /\ Returned(c1)
        /\ FailedLate(c2)
        /\ frames[c2].result = None
        /\ frames[c1].session_id = frames[c2].session_id
        /\ AssistantTurn(c1) \in AllTurns

(***************************************************************************)
(* C9.  A call whose backend handed back None, an empty string or a blank  *)
(* string raised ModelProviderError over the empty response and wrote no   *)
(* assistant turn.                                                         *)
(***************************************************************************)
C9_BlankResponseIsAnError ==
    \A c \in Calls :
        ( /\ frames[c].pc = "done"
          /\ frames[c].result # Unset
          /\ frames[c].result.type = "NoneType" \/ BlankText(frames[c].result.val) )
        => /\ frames[c].outcome.kind = "raise"
           /\ frames[c].outcome.exc = "ModelProviderError"
           /\ "Model returned empty response" \in Range(frames[c].outcome.detail)
           /\ \A t \in AllTurns : ~(t.call = c /\ t.role = "assistant")

(***************************************************************************)
(* C10.  Across every step the set of session ids of _histories only       *)
(* grows, and the history the agent holds for a session after the step     *)
(* starts with the history it held for it before the step.                 *)
(***************************************************************************)
C10_Step ==
    /\ DOMAIN _histories \subseteq DOMAIN _histories'
    /\ \A s \in DOMAIN _histories :
           IsPrefix(heap[_histories[s]].messages, heap'[_histories'[s]].messages)

C10_AppendOnly == [][C10_Step]_vars

\* a occurs in b as a run of consecutive tokens: `a in b` for text.
Contains(b, a) ==
    \E i \in 0..(Len(b) - Len(a)) : SubSeq(b, i + 1, i + Len(a)) = a

(***************************************************************************)
(* C11.  An agent of the fake provider, calls with a non-empty message and *)
(* a non-empty session id (EchoSpec).  Such a call returns, and what it    *)
(* returns is exactly "[provider=fake][echo] " followed by the message: so *)
(* the response contains 'provider=fake' and contains the message.         *)
(***************************************************************************)
C11_FakeEcho ==
    \A c \in Calls :
        ( /\ provider = "fake"
          /\ frames[c].pc = "done"
          /\ ~Invalid(frames[c].message)
          /\ ~Invalid(frames[c].session_id) )
        => /\ frames[c].outcome =
                 Return(<<"[", "provider=fake", "]", "[echo]", " ">>
                        \o frames[c].message.val)
           /\ Contains(frames[c].outcome.value, <<"provider=fake">>)
           /\ Contains(frames[c].outcome.value, frames[c].message.val)

C11_Witness ==
    \E c \in Calls :
        /\ provider = "fake"
        /\ frames[c].message = Str(<<"a", " ", "b">>)
        /\ Returned(c)
        /\ frames[c].outcome.value[Len(frames[c].outcome.value)] = "b"

\* The provider string p is none of the valid choices once its case is folded,
\* it is trimmed and the alias is resolved; a blank string is no identifier
\* at all.
Unrecognized(p) ==
    LET n == Strip(Lower(p.val))
        r == IF n = <<"c", "l", "a", "u", "d", "e">>
             THEN <<"a", "n", "t", "h", "r", "o", "p", "i", "c">> ELSE n IN
    /\ Len(n) > 0
    /\ r \notin { <<"o", "p", "e", "n", "a", "i">>,
                  <<"a", "n", "t", "h", "r", "o", "p", "i", "c">>,
                  <<"o", "l", "l", "a", "m", "a">>,
                  <<"f", "a", "k", "e">> }

RunDone(r) == runs[r].pc = "done"
RunReturned(r) == RunDone(r) /\ runs[r].outcome.kind = "return"
\* The child of call r exited and run_script made its result of the output.
Completed(r) == RunDone(r) /\ runs[r].child = "exited"

(***************************************************************************)
(* C13.  Once a run_script call is over, however it ended, the temporary   *)
(* file it created no longer exists.                                       *)
(***************************************************************************)
C13_TempFileRemoved ==
    \A r \in Runs : RunDone(r) => runs[r].tmp_name \notin files

(***************************************************************************)
(* C14.  A run_script call never ends by raising: whatever failed, the     *)
(* caller gets a text.                                                     *)
(***************************************************************************)
C14_NeverRaises ==
    \A r \in Runs : RunDone(r) => runs[r].outcome.kind = "return"

\* The child of call r was started.
Launched(r) == runs[r].child # "none"

(***************************************************************************)
(* C15.  A call whose child was still running when the timeout elapsed     *)
(* returns the timeout text and nothing else, whatever the child wrote,    *)
(* and by then the child runs no more: it was killed.                      *)
(***************************************************************************)
C15_TimeoutSentinelAndChildKilled ==
    \A r \in Runs :
        ( /\ RunDone(r)
          /\ Launched(r)
          /\ runs[r].script.duration >= runs[r].timeout )
        => /\ runs[r].outcome =
                 Return(<<"[", "timeout", "]", " ",
                          "Script execution exceeded the configured ",
                          "timeout", ".">>)
           /\ runs[r].child = "killed"

C15_Witness ==
    \E r \in Runs :
        /\ RunDone(r)
        /\ runs[r].timeout = 1
        /\ runs[r].script.duration = 2
        /\ runs[r].script.stdout = <<"ok", "\n">>
        /\ runs[r].child = "killed"
        /\ runs[r].outcome.kind = "return"

\* What the child of call r wrote, trimmed, and its exit status.
TrimmedStdout(r) == Strip(runs[r].proc.stdout)
TrimmedStderr(r) == Strip(runs[r].proc.stderr)
ExitStatus(r) == runs[r].proc.returncode
\* t as a labelled section: "\n[stderr]\n" and t.
Labelled(t) == <<"\n", "[stderr]", "\n">> \o t

(***************************************************************************)
(* C16, as claimed.  A call whose child exited with status 0 returns the   *)
(* trimmed stdout, followed, whenever the trimmed stderr is not empty, by  *)
(* the labelled stderr section, for every stdout, an empty one included.   *)
(***************************************************************************)
C16_StderrLabelledForEveryStdout ==
    \A r \in Runs :
        (Completed(r) /\ ExitStatus(r) = 0)
        => runs[r].outcome =
              Return(IF Len(TrimmedStderr(r)) > 0
                     THEN TrimmedStdout(r) \o Labelled(TrimmedStderr(r))
                     ELSE TrimmedStdout(r))

(***************************************************************************)
(* C16, amended.  A call whose child exited with status 0 returns the      *)
(* trimmed stdout when the trimmed stderr is empty; the trimmed stdout     *)
(* followed by the labelled stderr section when neither is empty; and the  *)
(* trimmed stderr alone, without label, when the trimmed stdout is empty.  *)
(***************************************************************************)
C16_StderrLabelledAfterStdout ==
    \A r \in Runs :
        (Completed(r) /\ ExitStatus(r) = 0)
        => runs[r].outcome =
              Return(IF Len(TrimmedStderr(r)) = 0 THEN TrimmedStdout(r)
                     ELSE IF Len(TrimmedStdout(r)) = 0 THEN TrimmedStderr(r)
                          ELSE TrimmedStdout(r) \o Labelled(TrimmedStderr(r)))

C16_Witness ==
    \E r1, r2 \in Runs :
        /\ Completed(r1) /\ ExitStatus(r1) = 0
        /\ runs[r1].outcome = Return(<<"ok", "\n", "[stderr]", "\n", "boom">>)
        /\ Completed(r2) /\ ExitStatus(r2) = 0
        /\ runs[r2].proc.stdout = <<>>
        /\ runs[r2].outcome = Return(<<"boom">>)

(***************************************************************************)
(* C17.  A call whose child exited with a non-zero status and wrote        *)
(* nothing to stdout returns the trimmed stderr alone, with no label, so   *)
(* the empty text when stderr is empty too; what the child wrote to stderr *)
(* about its exception is in the result.                                   *)
(***************************************************************************)
C17_FailureWithoutStdout ==
    \A r \in Runs :
        (Completed(r) /\ ExitStatus(r) # 0 /\ Len(runs[r].proc.stdout) = 0)
        => /\ runs[r].outcome = Return(TrimmedStderr(r))
           /\ ~Contains(runs[r].outcome.value, <<"[stderr]">>)
           /\ Len(runs[r].proc.stderr) = 0 => runs[r].outcome = Return(<<>>)
           /\ Contains(runs[r].proc.stderr, <<"boom">>)
                 => Contains(runs[r].outcome.value, <<"boom">>)

C17_Witness ==
    \E r \in Runs :
        /\ Completed(r)
        /\ ExitStatus(r) = 1
        /\ runs[r].proc.stdout = <<>>
        /\ runs[r].proc.stderr = <<"boom", "\n">>
        /\ runs[r].outcome = Return(<<"boom">>)

(***************************************************************************)
(* C18, as claimed.  A call whose child exited with a non-zero status and  *)
(* wrote something to stdout returns the trimmed stdout, followed by the   *)
(* labelled stderr section when the trimmed stderr is not empty.           *)
(***************************************************************************)
C18_FailureWithStdout ==
    \A r \in Runs :
        (Completed(r) /\ ExitStatus(r) # 0 /\ Len(runs[r].proc.stdout) > 0)
        => runs[r].outcome =
              Return(IF Len(TrimmedStderr(r)) > 0
                     THEN TrimmedStdout(r) \o Labelled(TrimmedStderr(r))
                     ELSE TrimmedStdout(r))

(***************************************************************************)
(* C18, amended.  A call whose child exited with a non-zero status and     *)
(* wrote to stdout something that is not empty once trimmed returns the    *)
(* trimmed stdout first, followed by the labelled stderr section when the  *)
(* trimmed stderr is not empty; when stdout is whitespace only, it returns *)
(* the trimmed stderr alone, without label.                                *)
(***************************************************************************)
C18_FailureWithTrimmedStdout ==
    \A r \in Runs :
        (Completed(r) /\ ExitStatus(r) # 0 /\ Len(runs[r].proc.stdout) > 0)
        => IF Len(TrimmedStdout(r)) > 0
           THEN /\ IsPrefix(TrimmedStdout(r), runs[r].outcome.value)
                /\ runs[r].outcome =
                      Return(IF Len(TrimmedStderr(r)) > 0
                             THEN TrimmedStdout(r) \o Labelled(TrimmedStderr(r))
                             ELSE TrimmedStdout(r))
           ELSE runs[r].outcome = Return(TrimmedStderr(r))

C18_Witness ==
    \E r1, r2 \in Runs :
        /\ Completed(r1) /\ ExitStatus(r1) = 1
        /\ runs[r1].outcome = Return(<<"ok", "\n", "[stderr]", "\n", "boom">>)
        /\ Completed(r2) /\ ExitStatus(r2) = 1
        /\ runs[r2].proc.stdout = <<" ", "\n">>
        /\ runs[r2].outcome = Return(<<"boom">>)

(***************************************************************************)
(* C19.  The result of a call tells how the child ended: two calls whose   *)
(* children wrote the same stdout and the same stderr, one exiting with    *)
(* status 0 and the other with a non-zero status, have different results.  *)
(***************************************************************************)
C19_ResultTellsExitStatus ==
    \A r1, r2 \in Runs :
        ( /\ Completed(r1) /\ Completed(r2)
          /\ runs[r1].proc.stdout = runs[r2].proc.stdout
          /\ runs[r1].proc.stderr = runs[r2].proc.stderr
          /\ ExitStatus(r1) = 0
          /\ ExitStatus(r2) # 0 )
        => runs[r1].outcome # runs[r2].outcome

UserTurnPlaces(c) ==
    {p \in UNION {{<<h, i>> : i \in DOMAIN heap[h].messages} : h \in DOMAIN heap} :
        heap[p[1]].messages[p[2]] = UserTurn(c)}

(***************************************************************************)
(* C25.  In every execution (Spec), a chat call invokes the backend at     *)
(* most once and appends its user turn at most once; a call that failed    *)
(* after its invocation, by an error of the backend or by an empty         *)
(* response, made exactly one invocation and left exactly one user turn.   *)
(***************************************************************************)
C25_SingleInvocation ==
    \A c \in Calls :
        /\ frames[c].invocations <= 1
        /\ Cardinality(UserTurnPlaces(c)) <= 1
        /\ (FailedLate(c) /\ frames[c].invocations > 0)
              => /\ frames[c].invocations = 1
                 /\ Cardinality(UserTurnPlaces(c)) = 1

C25_Witness ==
    \E c1, c2 \in Calls :
        /\ FailedLate(c1) /\ frames[c1].invocations = 1
        /\ frames[c1].result = Unset
        /\ FailedLate(c2) /\ frames[c2].invocations = 1
        /\ frames[c2].result = Str(<<>>)

(***************************************************************************)
(* C26.  In every execution (Spec), calls running concurrently included,   *)
(* the agent builds its pipeline at most once.                             *)
(***************************************************************************)
C26_PipelineBuiltOnce == Len(builds) <= 1

\* The turns call c finds in its history that earlier calls appended.
PriorTurns(c) == SelectSeq(Held(c), LAMBDA t : t.call # c)
\* How many times turn t is in the sequence q.
Occurrences(q, t) == Cardinality({i \in DOMAIN q : q[i] = t})

(***************************************************************************)
(* C27.  Calls made one after the other on an agent of a network-backed    *)
(* provider (SeqSpec).  What a call hands to the backend is, after the     *)
(* system message, the turns earlier calls left in the session's history,  *)
(* oldest first, and then the new user message, which is in it once.       *)
(***************************************************************************)
C27_ContextHasUserMessageOnce ==
    \A c \in Calls :
        (provider # "fake" /\ frames[c].pc = "respond")
        => LET prompt == prompt_messages(c, chat_inputs(c)) IN
           /\ Tail(prompt) = PriorTurns(c) \o <<UserTurn(c)>>
           /\ Occurrences(prompt, UserTurn(c)) = 1

\* Call c ended because the construction of the pipeline raised.
BuildFailed(c) == FailedLate(c) /\ frames[c].history # 0 /\ frames[c].chain = 0
\* Call c ended because the invocation of the pipeline raised.
InvokeFailed(c) ==
    FailedLate(c) /\ frames[c].invocations > 0 /\ frames[c].result = Unset

(***************************************************************************)
(* C23.  A call in which the construction or the invocation of the         *)
(* pipeline raised KeyError or TypeError ends with AgentConfigError; a     *)
(* call in which the invocation raised anything else ends with             *)
(* ModelProviderError (ErrSpec).                                           *)
(***************************************************************************)
C23_WiringErrorIsConfigError ==
    \A c \in Calls :
        /\ (BuildFailed(c) /\ faults.build \in {"KeyError", "TypeError"})
              => frames[c].outcome.exc = "AgentConfigError"
        /\ InvokeFailed(c)
              => frames[c].outcome.exc =
                    IF faults.invoke \in {"KeyError", "TypeError"}
                    THEN "AgentConfigError" ELSE "ModelProviderError"

(***************************************************************************)
(* C24.  A call in which the construction of the pipeline raised           *)
(* ImportError, the provider's package being missing, ends with the error  *)
(* of chat's ImportError clause, "Provider '<name>' not available: ...",   *)
(* and not with that of another clause (ErrSpec).                          *)
(***************************************************************************)
C24_MissingPackageIsProviderUnavailable ==
    \A c \in Calls :
        (BuildFailed(c) /\ faults.build = "ImportError")
        => /\ frames[c].outcome.exc = "ModelProviderError"
           /\ IsPrefix(<<"Provider '", provider, "' not available: ">>,
                       frames[c].outcome.detail)

(***************************************************************************)
(* C28.  Calls made in a changing environment (EnvSpec).  A call whose     *)
(* construction of the pipeline had the tools asked for and the loading or *)
(* the binding of them fail has built a pipeline all the same: its model   *)
(* has no tools, the pipeline is the cached one, and the call does not end *)
(* with the error of a failed construction.                                *)
(***************************************************************************)
C28_ToolFailureNotFatal ==
    \A c \in Calls :
        frames[c].tools \in ToolFailures
        => /\ frames[c].model.enable_tools
           /\ frames[c].chain # 0
           /\ c \in Range(builds)
           /\ ~frames[c].model.bound
           /\ _chain = frames[c].chain
           /\ ~Contains(frames[c].outcome.detail,
                        <<"Failed to build agent chain: ">>)

\* The binding of the tools failed in a call of a network-backed provider,
\* the call returned, and a later call used the pipeline it cached.
C28_Witness ==
    \E c, c2 \in Calls :
        /\ provider # "fake"
        /\ frames[c].tools = "bind_error"
        /\ Returned(c)
        /\ c2 > c
        /\ frames[c2].chain = frames[c].chain
        /\ Returned(c2)

\* The settings of the backend a model was made with.
Settings(m) == [temperature |-> m.temperature, enable_tools |-> m.enable_tools]
\* The settings the environment held when the agent was constructed.
SettingsAtConstruction ==
    [temperature |-> temperature(NoEnv), enable_tools |-> tools_enabled(NoEnv)]

(***************************************************************************)
(* C29.  Calls made in a changing environment (EnvSpec).  The provider of  *)
(* the agent never changes, and the model of every pipeline an agent of a  *)
(* network-backed provider builds has the settings the environment held    *)
(* when the agent was constructed, whatever the environment became since.  *)
(***************************************************************************)
C29_BackendFixedAtConstruction ==
    /\ [][provider' = provider]_vars
    /\ [](\A c \in Range(builds) :
            provider # "fake" => Settings(frames[c].model) = SettingsAtConstruction)

\* Request k was a POST /chat and has its answer.
ChatAnswered(k) == requests[k].route = "/chat" /\ requests[k].pc = "done"
\* The message or the session id of request k is empty or blank.
BlankField(k) ==
    BlankText(requests[k].message.val) \/ BlankText(requests[k].session_id.val)

(***************************************************************************)
(* C21.  The server (ServerSpec).  A POST /chat request whose message or   *)
(* session id is empty or blank is answered with status 400, and neither   *)
(* an agent was constructed nor a chat call made for it.                   *)
(***************************************************************************)
C21_BlankFieldIsClientError ==
    \A k \in Requests :
        (ChatAnswered(k) /\ BlankField(k))
        => /\ requests[k].status = 400
           /\ ~requests[k].agent
           /\ requests[k].call = 0

(***************************************************************************)
(* C22.  The server (ServerSpec).  Of two POST /chat requests of the same  *)
(* session id, both answered with status 200, the history the chat call of *)
(* the later one worked on holds the user turn and the assistant turn of   *)
(* the earlier one.                                                        *)
(***************************************************************************)
C22_HistoryAcrossRequests ==
    \A k1, k2 \in Requests :
        ( /\ k1 < k2
          /\ ChatAnswered(k1) /\ requests[k1].status = 200
          /\ ChatAnswered(k2) /\ requests[k2].status = 200
          /\ requests[k1].session_id = requests[k2].session_id )
        => {UserTurn(requests[k1].call), AssistantTurn(requests[k1].call)}
              \subseteq Range(Held(requests[k2].call))

\* The run_script call of /execute request j is waiting on its child.
WaitingOnChild(j) ==
    /\ requests[j].pc = "running"
    /\ runs[requests[j].run].pc = "wait"

(***************************************************************************)
(* C30.  The server (ServerSpec).  While the run_script call of one        *)
(* /execute request is waiting on its child, the next request can come in, *)
(* be it a /chat request (when the agent of the model is free) or another  *)
(* /execute request, and every other request being handled can take its    *)
(* next step.                                                              *)
(***************************************************************************)
C30_WaitingExecuteBlocksNoRequest ==
    \A j, k \in Requests :
        (j # k /\ WaitingOnChild(j))
        => /\ (Incoming(k) /\ NoChatHandled)
                 => \A b \in ChatBodies : ENABLED chat_request(k, b)
           /\ Incoming(k)
                 => \A code \in ExecuteBodies : ENABLED execute_request(k, code)
           /\ k \in Handling => ENABLED Handle(k)

\* A /chat request that came in after an /execute request has its answer,
\* a chat response, while the script of the other, which never ends by
\* itself, is still waited for.
C30_Witness ==
    \E j, k \in Requests :
        /\ j < k
        /\ WaitingOnChild(j)
        /\ requests[j].code.duration > DefaultTimeout
        /\ ChatAnswered(k)
        /\ requests[k].status = 200

\* The provider argument p is unset: None, or a string empty or of
\* whitespace alone.
UnsetProvider(p) == p = None \/ (IsStr(p) /\ Len(Strip(p.val)) = 0)

C32_MissingProviderIsNotFound ==
    \A k \in Requests :
        ( /\ ChatAnswered(k)
          /\ requests[k].call # 0
          /\ BuildFailed(requests[k].call)
          /\ faults.build = "ImportError" )
        => /\ requests[k].status = 404
           /\ IsPrefix(<<"Provider not available: ">>, requests[k].body)

\* Call c ended because the history of its session could not be made.
HistoryFailed(c) == FailedLate(c) /\ frames[c].history = 0

(***************************************************************************)
(* C33.  Calls in a deployment of any failure classes (ErrSpec).  A call   *)
(* in which getting or creating the history of the session failed ends     *)
(* with SessionHistoryError.                                               *)
(***************************************************************************)
C33_HistoryFailureIsSessionHistoryError ==
    \A c \in Calls :
        HistoryFailed(c) => frames[c].outcome.exc = "SessionHistoryError"

(***************************************************************************)
(* C34.  run_script calls under fair scheduling (RunLiveSpec).  Every call *)
(* made is over in the end, whatever the script does and whatever the      *)
(* timeout; and a call that is over has no child still running: the child  *)
(* exited, was killed on timeout, or was never launched.                   *)
(***************************************************************************)
C34_RunScriptTerminates ==
    /\ \A r \in Runs : (runs[r].pc # "idle") ~> RunDone(r)
    /\ [](\A r \in Runs : RunDone(r) => runs[r].child # "running")

\* One call ended with its child killed on timeout and another with an
\* exception, its child never launched.
C34_Witness ==
    \E r1, r2 \in Runs :
        /\ RunDone(r1) /\ runs[r1].child = "killed"
        /\ RunDone(r2) /\ runs[r2].outcome.kind = "raise" /\ runs[r2].child = "none"

\* The calls made for session s that are over.
CallsOf(s) == {c \in Calls : frames[c].pc = "done" /\ frames[c].session_id = s}
\* How many turns of role r the sequence q holds.
CountRole(q, r) == Cardinality({i \in DOMAIN q : q[i].role = r})
\* In every history the assistant turns are no more than the user turns.
AssistantAtMostUser ==
    \A h \in DOMAIN heap :
        CountRole(heap[h].messages, "assistant") <= CountRole(heap[h].messages, "user")

(***************************************************************************)
(* C35, as stated.  Calls made one after the other, some of which fail     *)
(* (ErrSpec).  Between calls, the history of a session holds as many turns *)
(* as calls for it passed validation plus calls for it returned; and in    *)
(* every state a history has no more assistant turns than user turns.      *)
(***************************************************************************)
C35_LengthCountsValidated ==
    /\ InFlight = {}
          => \A s \in SessionIds :
                Len(Stored(s)) =
                    Cardinality({c \in CallsOf(s) : Validated(c)})
                    + Cardinality({c \in CallsOf(s) : Returned(c)})
    /\ AssistantAtMostUser

(***************************************************************************)
(* C35, amended.  Between calls, the history of a session holds as many    *)
(* turns as calls for it passed validation and got the history of the      *)
(* session, plus calls for it returned; and in every state a history has   *)
(* no more assistant turns than user turns.                                *)
(***************************************************************************)
C35_LengthCountsAppended ==
    /\ InFlight = {}
          => \A s \in SessionIds :
                Len(Stored(s)) =
                    Cardinality({c \in CallsOf(s) : Validated(c) /\ frames[c].history # 0})
                    + Cardinality({c \in CallsOf(s) : Returned(c)})
    /\ AssistantAtMostUser

\* After a call that failed and one that returned, the history of their
\* session holds two user turns one after the other.
C35_Witness ==
    /\ InFlight = {}
    /\ \E c1, c2 \in Calls :
          /\ c1 < c2
          /\ FailedLate(c1) /\ frames[c1].history # 0
          /\ Returned(c2)
          /\ frames[c2].session_id = frames[c1].session_id
          /\ LET q == Stored(frames[c1].session_id) IN
             /\ Len(q) = 3
             /\ q[1].role = "user" /\ q[2].role = "user" /\ q[3].role = "assistant"

(***************************************************************************)
(* C36.  An agent of the fake provider (EchoSpec).  Two calls given the    *)
(* same message end alike, with the same response, whatever their session  *)
(* ids and whatever the histories they found; and no call of such an agent *)
(* invokes the pipeline.                                                   *)
(***************************************************************************)
C36_FakeIsHistoryIndependent ==
    provider = "fake"
    => /\ \A c1, c2 \in Calls :
             ( /\ frames[c1].pc = "done" /\ frames[c2].pc = "done"
               /\ Validated(c1) /\ Validated(c2)
               /\ frames[c1].message = frames[c2].message )
             => frames[c1].outcome = frames[c2].outcome
       /\ \A c \in Calls : frames[c].invocations = 0

\* Two calls of one session given the same message returned the same
\* response, the first on an empty history and the second on one that held
\* the turns of the first.
C36_Witness ==
    \E c1, c2 \in Calls :
        /\ provider = "fake"
        /\ c1 < c2
        /\ frames[c1].message = Str(<<"Ping">>)
        /\ frames[c2].message = Str(<<"Ping">>)
        /\ frames[c1].history = frames[c2].history
        /\ Returned(c1) /\ Returned(c2)
        /\ frames[c1].outcome.value = frames[c2].outcome.value
        /\ Len(Held(c2)) = 4

\* Call c got the cached pipeline and built none.
Reused(c) == frames[c].chain # 0 /\ c \notin Range(builds)

(***************************************************************************)
(* C37.  Calls made one after the other (ErrSpec).  The cache holds a      *)
(* pipeline exactly when a construction went through.  A call whose        *)
(* construction failed has its user turn in the history; the cache is      *)
(* empty as long as no later call has built; and the call after it, once   *)
(* past the look at the cache, has not reused a pipeline: it runs the      *)
(* construction itself.                                                    *)
(***************************************************************************)
C37_CacheSetOnlyBySuccessfulBuild ==
    /\ _chain = Len(builds)
    /\ \A c \in Range(builds) : frames[c].chain # 0
    /\ \A c \in Calls :
          BuildFailed(c)
          => /\ UserTurn(c) \in Range(Held(c))
             /\ (\A c2 \in Calls : c2 > c => c2 \notin Range(builds)) => _chain = 0
             /\ (c + 1 \in Calls /\ frames[c + 1].history # 0
                    /\ frames[c + 1].pc \notin {"add_user_message", "chain_check"})
                   => /\ ~Reused(c + 1)
                      /\ \/ frames[c + 1].pc = "chain_build"
                         \/ c + 1 \in Range(builds)
                         \/ BuildFailed(c + 1)

\* The construction failed in one call and went through in the next, which
\* returned; the history of their session holds the user turns of both.
C37_Witness ==
    \E c \in Calls :
        /\ c + 1 \in Calls
        /\ BuildFailed(c)
        /\ c + 1 \in Range(builds)
        /\ Returned(c + 1)
        /\ frames[c].history = frames[c + 1].history
        /\ {UserTurn(c), UserTurn(c + 1)} \subseteq Range(Held(c + 1))

\* Request k was a POST /execute and has its answer.
ExecuteAnswered(k) == requests[k].route = "/execute" /\ requests[k].pc = "done"

(***************************************************************************)
(* C38.  The server (ServerSpec).  A POST /execute request is answered     *)
(* from a run_script call made with the code of the request and a timeout  *)
(* of 30 seconds: with status 200 and what the call returned, which is the *)
(* output of the script or, for a script that outlasts the timeout, the    *)
(* timeout text; or, exactly when the call raised, with status 500 and     *)
(* "Execution failed".  No other answer is given.                          *)
(***************************************************************************)
C38_ExecuteContract ==
    \A k \in Requests :
        ExecuteAnswered(k)
        => LET run == runs[requests[k].run] IN
           /\ RunDone(requests[k].run)
           /\ run.script = requests[k].code
           /\ run.timeout = DefaultTimeout
           /\ requests[k].status \in {200, 500}
           /\ requests[k].status = 500 <=> run.outcome.kind = "raise"
           /\ requests[k].status = 500 => requests[k].body = <<"Execution failed">>
           /\ requests[k].status = 200
                 => /\ requests[k].body = run.outcome.value
                    /\ requests[k].body =
                          IF run.script.duration < DefaultTimeout
                          THEN format_output(run.script.returncode,
                                             run.script.stdout, run.script.stderr)
                          ELSE TimeoutSentinel

\* One /execute request was answered 200 with the output of its script and
\* another 500, its run_script call having raised.
C38_Witness ==
    \E k1, k2 \in Requests :
        /\ ExecuteAnswered(k1)
        /\ requests[k1].status = 200
        /\ requests[k1].body = <<"ok">>
        /\ ExecuteAnswered(k2)
        /\ requests[k2].status = 500
        /\ runs[requests[k2].run].outcome.kind = "raise"

(***************************************************************************)
(* The chat window: its handlers, its worker threads and the updates they  *)
(* marshal to the UI thread.  A handler and a ui_update run on the UI      *)
(* thread, one at a time; a disabled button raises no Click.               *)
(***************************************************************************)
\* Bound of the model: the number of sessions New Chat starts.
MaxSessions == 2
\* Bound of the model: the "No code available" notes one conversation shows.
MaxNotes == 2

\* The three backquotes that open and close a fenced block, as one element
\* of a text, and (?:python|py).
Fence == "fence"
LanguageTags == {"python", "py"}

\* pattern.findall(text), read from the left: each fence that follows an
\* opening fence closes a match, and the next fence opens another.  open
\* tells whether a fence is open and inner is what follows it so far.
RECURSIVE findall(_, _, _)
findall(text, open, inner) ==
    IF text = <<>> THEN <<>>
    ELSE IF Head(text) = Fence
         THEN IF open
              THEN <<inner>> \o findall(Tail(text), FALSE, <<>>)
              ELSE findall(Tail(text), TRUE, <<>>)
         ELSE findall(Tail(text), open,
                      IF open THEN Append(inner, Head(text)) ELSE inner)

\* _extract_last_code_block: the last match, without the language tag that
\* follows its opening fence, stripped; "" when nothing matches.
_extract_last_code_block(text) ==
    LET matches == findall(text, FALSE, <<>>) IN
    IF matches = <<>> THEN <<>>
    ELSE LET inner == matches[Len(matches)] IN
         Strip(IF inner # <<>> /\ inner[1] \in LanguageTags
               THEN Tail(inner) ELSE inner)

\* re.sub of ^fence[\w]*\n? and fence$ by "", MULTILINE, read from the
\* left.  prev tells what precedes s: the start of a line, a fence dropped
\* at the start of a line, the word dropped after it, or other text.
RECURSIVE sub_fences(_, _)
sub_fences(s, prev) ==
    IF s = <<>> THEN <<>>
    ELSE IF Head(s) = Fence /\ prev = "start"
         THEN sub_fences(Tail(s), "fence")
    ELSE IF Head(s) \in LanguageTags /\ prev = "fence"
         THEN sub_fences(Tail(s), "word")
    ELSE IF Head(s) = "\n" /\ prev \in {"fence", "word"}
         THEN sub_fences(Tail(s), "start")
    ELSE IF Head(s) = Fence /\ (Tail(s) = <<>> \/ Head(Tail(s)) = "\n")
         THEN sub_fences(Tail(s), "other")
    ELSE <<Head(s)>> \o sub_fences(Tail(s), IF Head(s) = "\n" THEN "start"
                                                             ELSE "other")

\* _ensure_no_fences: the fences that start or end a line of code.strip()
\* are dropped, an opening one with the word and the newline after it.
_ensure_no_fences(code) == sub_fences(Strip(code), "start")

\* ChatWindow._set_busy
_set_busy(win, busy) == [win EXCEPT !.IsEnabled = ~busy]

\* ChatWindow._append_text
_append_text(win, text, role) ==
    [win EXCEPT !.panelConversation = Append(@, [role |-> role, Text |-> text])]

\* threading.Thread(target=worker, name=name, daemon=True).start(): the
\* thread the window has not used yet.
FreeThread == CHOOSE w \in Threads :
                 /\ window.threads[w].pc = "idle"
                 /\ \A v \in Threads : window.threads[v].pc = "idle" => w <= v

start_thread(win, name) ==
    [win EXCEPT !.threads[FreeThread] =
        [pc |-> "running", name |-> name, result |-> <<>>]]

\* A worker between its start and the return of its Dispatcher.Invoke.
WorkerInFlight(w) == window.threads[w].pc \in {"running", "invoke"}

\* What the user may have typed into txtPrompt.
Prompts == { <<>>, <<" ">>, <<"hi">>, <<" ", "hi", "\n">> }

\* btnSend_Click (UI thread): nothing for a blank prompt; else the prompt
\* is shown, the controls are disabled and the worker starts.
btnSend_Click(prompt) ==
    /\ window.IsEnabled
    /\ IF Strip(prompt) = <<>>
       THEN UNCHANGED window
       ELSE /\ \E w \in Threads : window.threads[w].pc = "idle"
            /\ window' = start_thread(_set_busy(_append_text(window, Strip(prompt), "user"),
                                         TRUE), "rca-chat-send")
    /\ UNCHANGED <<agentVars, ctor, runnerVars, faults, env, requests>>

\* What the send worker ends with: str(data.get("response", "")) of the
\* server's answer, or "[error] " and the exception _post_json raised.
Replies ==
    { <<"hello">>,
      <<"Try", "\n", Fence, "python", "\n", "print(1)", "\n", Fence>>,
      <<"[error] ", "HTTP Error 500">> }

\* The send worker, off the UI thread: the POST to /chat returns or raises.
send_worker(w) ==
    /\ window.threads[w].pc = "running"
    /\ window.threads[w].name = "rca-chat-send"
    /\ \E reply \in Replies :
          window' = [window EXCEPT !.threads[w].pc = "invoke",
                                   !.threads[w].result = reply]
    /\ UNCHANGED <<agentVars, ctor, runnerVars, faults, env, requests>>

\* ui_update of the send worker, run by Dispatcher.Invoke on the UI thread:
\* the reply is shown, its last code block fills txtCode and opens the
\* expander, the controls are enabled.
send_ui_update(w) ==
    /\ window.threads[w].pc = "invoke"
    /\ window.threads[w].name = "rca-chat-send"
    /\ \E reply \in {window.threads[w].result} :
       \E code \in {_extract_last_code_block(reply)} :
       \E text \in {_ensure_no_fences(code)} :
          LET shown == _append_text(window, reply, "assistant")
              filled == IF code # <<>>
                        THEN [shown EXCEPT !.txtCode = text, !.IsExpanded = TRUE]
                        ELSE shown
          IN window' = [_set_busy(filled, FALSE) EXCEPT
                           !.threads[w].pc = "done", !.threads[w].result = <<>>]
    /\ UNCHANGED <<agentVars, ctor, runnerVars, faults, env, requests>>

\* The note btnExecute_Click shows when txtCode is blank.
NoCode == <<"No code available to execute.">>

\* btnExecute_Click (UI thread).  No statement of the script disables
\* btnExecute, so the click is possible in every state of the window.
btnExecute_Click ==
    /\ IF Strip(window.txtCode) = <<>>
       THEN /\ Cardinality({i \in DOMAIN window.panelConversation :
                               window.panelConversation[i].Text = NoCode}) < MaxNotes
            /\ window' = _append_text(window, NoCode, "assistant")
       ELSE /\ \E w \in Threads : window.threads[w].pc = "idle"
            /\ window' = start_thread(_set_busy(window, TRUE), "rca-exec")
    /\ UNCHANGED <<agentVars, ctor, runnerVars, faults, env, requests>>

\* What the execute worker ends with: the output of pyrevit run, or the
\* text of the failure.
ExecResults ==
    { <<"ok">>,
      <<"[execute error]", "\n", "boom">>,
      <<"[timeout] Execution exceeded time limit.">> }

\* The execute worker, off the UI thread: subprocess.run returns or raises.
exec_worker(w) ==
    /\ window.threads[w].pc = "running"
    /\ window.threads[w].name = "rca-exec"
    /\ \E result \in ExecResults :
          window' = [window EXCEPT !.threads[w].pc = "invoke",
                                   !.threads[w].result = result]
    /\ UNCHANGED <<agentVars, ctor, runnerVars, faults, env, requests>>

\* ui_update of the execute worker (UI thread).
exec_ui_update(w) ==
    /\ window.threads[w].pc = "invoke"
    /\ window.threads[w].name = "rca-exec"
    /\ window' = [_set_busy(_append_text(window, window.threads[w].result,
                                         "assistant"), FALSE)
                    EXCEPT !.threads[w].pc = "done", !.threads[w].result = <<>>]
    /\ UNCHANGED <<agentVars, ctor, runnerVars, faults, env, requests>>

\* btnNewChat_Click (UI thread): the conversation and the code are cleared
\* and a fresh session id is drawn.
btnNewChat_Click ==
    /\ window.IsEnabled
    /\ window.session_id < MaxSessions
    /\ window' = [window EXCEPT !.panelConversation = <<>>,
                                !.txtCode = <<>>,
                                !.IsExpanded = FALSE,
                                !.session_id = @ + 1]
    /\ UNCHANGED <<agentVars, ctor, runnerVars, faults, env, requests>>

\* A step of a worker: its own work, or its update on the UI thread.
WorkerStep(w) ==
    \/ send_worker(w)
    \/ send_ui_update(w)
    \/ exec_worker(w)
    \/ exec_ui_update(w)

UINext ==
    \/ \E prompt \in Prompts : btnSend_Click(prompt)
    \/ btnExecute_Click
    \/ btnNewChat_Click
    \/ \E w \in Threads : WorkerStep(w)

UIInit == Init

\* The window under a fair scheduler: a started thread runs, and the
\* dispatcher runs every update it was given.  Clicks are the user's.
UISpec ==
    UIInit /\ [][UINext]_vars /\ \A w \in Threads : WF_vars(WorkerStep(w))

(***************************************************************************)
(* C39: in the chat window the Send, New Chat and prompt controls are      *)
(* disabled whenever a worker (chat send or code execution) is in flight:  *)
(* they are enabled only when no worker is still running, and they are     *)
(* eventually enabled again after the workers have finished.               *)
(***************************************************************************)
C39_ControlsDisabledWhileWorkerInFlight ==
    /\ [](window.IsEnabled => \A w \in Threads : ~WorkerInFlight(w))
    /\ (~window.IsEnabled) ~> window.IsEnabled
====
